---- MODULE Spec2Model ----
(***************************************************************************)
(* Model of the fsapi test harness of qa_common:                           *)
(*   src/fsapi/static.py      constants, filetime_to_dt,                   *)
(*                            verify_returned_flag_field                   *)
(*   src/fsapi/api.py         FsApiWrapper.compare_file_info,              *)
(*                            compare_all_attributes, check_op_flag_attr   *)
(*   src/fsapi/filesystem.py  the FileSystem wrapper operations            *)
(*   src/utils.py             run_bash_w_live_output, log_to_stdout        *)
(*   src/fsapi/static.py      AccessModes.existing_handlers_check          *)
(* Python values are modelled as follows: None, True and False are the     *)
(* strings "None", "True" and "False"; a list is a sequence; an object     *)
(* with attributes is a record (a function from the attribute names); a    *)
(* raised exception is a result whose kind names the exception type.       *)
(***************************************************************************)
EXTENDS Integers, Sequences, FiniteSets, TLC

VARIABLES
    \* one call of verify_returned_flag_field (static.py:116)
    flag, pre, stat_post, extra_post, vrff_result,
    \* one call of FsApiWrapper.compare_file_info (api.py:92)
    f_info1, f_info2, exceptions, only_these, cfi_result,
    \* one call of FsApiWrapper.compare_all_attributes (api.py:116); fs_type is
    \* the attribute of the FsApiWrapper object
    fs_type, req, attrs, f_info_in, f_info_out, current_time, extra_exceptions,
    caa_result,
    \* one call of FsApiWrapper.check_op_flag_attr (api.py:222): its arguments,
    \* the attributes the backend holds, its locals, the statement it is at
    \* and how it ended; cofa_calls is the history of the calls and checks it
    \* has made, in order
    operation, parent, req_parent, req_target, special_fields,
    fs_parent, fs_target,
    file_info_parent_before, file_info_target_before, req_flags, op_ret,
    current_time_cofa, file_info_parent_out, file_info_target_out,
    pc, cofa_result, cofa_calls,
    \* one call of a FileSystem wrapper operation (filesystem.py): the
    \* operation, its arguments, the statuses of the backend and how it ended
    wrapper_op, verify, handle_id, inode, name, stream_id, length, api_status,
    fs_result,
    \* one call of run_bash_w_live_output (utils.py:782): the statement the
    \* main thread and the log-tailing thread are at, the Event, the
    \* subprocess, the log file, the locals of the two threads, the lines
    \* handed to log.info and the value returned
    main_pc, tail_pc, log_output_run, pro, log_file, returncode, debug_log,
    line, logged, rbw_result,
    \* one call of AccessModes.existing_handlers_check (static.py:183)
    existing_handlers, input_access_mode, input_share_mode, ehc_result,
    \* one call of FileSystem.get_inode (filesystem.py:80): its arguments
    \* (file_path is reassigned by the method), its locals, the statement it
    \* is at, the Lookup calls it has issued and how it ended
    file_path, gi_verify, return_attrs, levels, gi_parent, root_inode,
    level_index, gi_pc, gi_calls, gi_result,
    \* two calls of OpRequirements.fields_to_reqs (static.py:245)
    fields1, fields2, reqs1, reqs2

vrffVars == <<flag, pre, stat_post, extra_post, vrff_result>>
cfiVars == <<f_info1, f_info2, exceptions, only_these, cfi_result>>
caaVars == <<fs_type, req, attrs, f_info_in, f_info_out, current_time,
             extra_exceptions, caa_result>>
cofaArgs == <<operation, parent, req_parent, req_target>>
fsState == <<fs_parent, fs_target>>
befores == <<file_info_parent_before, file_info_target_before>>
opOut == <<req_flags, op_ret>>
afters == <<file_info_parent_out, file_info_target_out>>
cofaVars == <<cofaArgs, special_fields, fsState, befores, opOut, current_time_cofa, afters, pc, cofa_result, cofa_calls>>
fsVars == <<wrapper_op, verify, handle_id, inode, name, stream_id, length, api_status, fs_result>>
mainVars == <<main_pc, returncode, rbw_result>>
tailLocals == <<tail_pc, debug_log, line, logged>>
rbwVars == <<mainVars, tailLocals, log_output_run, pro, log_file>>
ehcVars == <<existing_handlers, input_access_mode, input_share_mode, ehc_result>>
giVars == <<file_path, gi_verify, return_attrs, levels, gi_parent, root_inode, level_index, gi_pc, gi_calls, gi_result>>
ftrVars == <<fields1, fields2, reqs1, reqs2>>
vars == <<vrffVars, cfiVars, caaVars, cofaVars, fsVars, rbwVars, ehcVars, giVars, ftrVars>>

(***************************************************************************)
(* Bounds of the model                                                     *)
(***************************************************************************)
\* flag values handed to verify_returned_flag_field: 0..MaxFlag
MaxFlag == 8
\* fields in which the second object of a comparison differs from the first
MaxDiff == 2
\* length of the exceptions list of compare_file_info
MaxExceptions == 1
\* length of the only_these list of compare_file_info
MaxOnlyThese == 2
\* number of fields a test requests for one object (the length of req)
MaxReq == 2
\* number of fields an operation changes between the two snapshots
MaxChanged == 2
\* number of fields the caller of compare_all_attributes excepts
MaxExtraExceptions == 1
\* an updated timestamp is up to this many whole days older than current_time
MaxDaysOld == 1
\* the effects of its own a backend adds to one operation
MaxEffects == 1
\* the links of the target of unlink
MaxNlink == 2
\* the lines the command writes to the log file
MaxLines == 2
\* the exit codes of the command are 0..MaxReturncode
MaxReturncode == 1
\* the handlers open on a file
MaxHandlers == 2
\* the mode bits set in the access mode and in the share mode of a handler
MaxHandlerBits == 1
\* the statuses an API call answers with are 0..MaxStatus
MaxStatus == 2
\* the length argument of read is 0..MaxLength
MaxLength == 1
\* the most characters of a path given to get_inode
MaxPathLen == 5
\* the most field names in a list given to fields_to_reqs
MaxFields == 2
\* the name given to open_stream has 0..MaxName characters
MaxName == 1
\* the stream_id given to open_stream is 0..MaxStreamId
MaxStreamId == 1

(***************************************************************************)
(* Python helpers                                                          *)
(***************************************************************************)
PyNone == "None"
PyTrue == "True"
PyFalse == "False"

\* truth value of an optional boolean argument (None and False are falsy)
Truthy(x) == x = PyTrue

\* x in list
InList(x, list) == \E i \in 1..Len(list) : list[i] = x

\* sequences over S of length at most n
SeqsUpTo(S, n) == UNION {[1..k -> S] : k \in 0..n}

\* [att for att in list if att not in excluded]
RECURSIVE NotIn(_, _)
NotIn(list, excluded) ==
    IF list = <<>> THEN <<>>
    ELSE IF InList(Head(list), excluded)
         THEN NotIn(Tail(list), excluded)
         ELSE <<Head(list)>> \o NotIn(Tail(list), excluded)

\* the elements of a list
Elems(list) == {list[i] : i \in 1..Len(list)}

\* a & b on non-negative integers
RECURSIVE BitAnd(_, _)
BitAnd(a, b) ==
    IF a = 0 \/ b = 0 THEN 0
    ELSE (IF a % 2 = 1 /\ b % 2 = 1 THEN 1 ELSE 0) + 2 * BitAnd(a \div 2, b \div 2)

\* a | b on non-negative integers
RECURSIVE BitOr(_, _)
BitOr(a, b) ==
    IF a = 0 THEN b
    ELSE IF b = 0 THEN a
    ELSE (IF a % 2 = 1 \/ b % 2 = 1 THEN 1 ELSE 0) + 2 * BitOr(a \div 2, b \div 2)

(***************************************************************************)
(* static.py: AttributeFlags and verify_returned_flag_field                *)
(***************************************************************************)
PRE_OP == 1
STAT_POST_OP == 2
EXTRA_POST_OP == 4

\* mutant: the extra_post toggle is left out of the expected value
verify_returned_flag_field_no_extra(flag_, pre_, stat_post_, extra_post_) ==
    LET e1 == IF Truthy(pre_) THEN BitOr(0, PRE_OP) ELSE 0
        e2 == IF Truthy(stat_post_) THEN BitOr(e1, STAT_POST_OP) ELSE e1
    IN  IF flag_ # e2 THEN PyNone ELSE PyTrue

verify_returned_flag_field(flag_, pre_, stat_post_, extra_post_) ==
    LET e1 == IF Truthy(pre_) THEN BitOr(0, PRE_OP) ELSE 0
        e2 == IF Truthy(stat_post_) THEN BitOr(e1, STAT_POST_OP) ELSE e1
        expected_result == IF Truthy(extra_post_) THEN BitOr(e2, EXTRA_POST_OP) ELSE e2
    IN  IF flag_ # expected_result THEN PyNone ELSE PyTrue

(***************************************************************************)
(* static.py: the field vocabulary and the typical values                  *)
(***************************************************************************)
STAT_INFO_ATTRS ==
    << "accessed_time", "bytes_used", "created_time", "gid", "length",
       "metadata_modified_time", "nlink", "spec_data", "uid", "unix_mode",
       "userdata_modified_time" >>

EXTRA_INFO_ATTRS ==
    << "dos_flags", "file_feature_flags", "file_type", "parent_cookie",
       "security_descriptor_object_number", "software_metadata_object_number",
       "virtual_volume_tag_number", "virus_scan_version_number",
       "volume_virus_scan_id" >>

\* the stat fields that hold a filetime (100 ns units since 1601-01-01)
TimeFields ==
    {"accessed_time", "created_time", "metadata_modified_time",
     "userdata_modified_time"}

\* A filetime is kept in mixed radix, days : seconds : microseconds : ticks of
\* 100 ns, because one day of ticks (864 * 10^9) exceeds the model checker's
\* integers.  The value is ((days * 86400 + secs) * 10^6 + usecs) * 10 + ticks.
FileTime(d, s, u, t) == [days |-> d, secs |-> s, usecs |-> u, ticks |-> t]

\* 137919572471111111 etc. are day 159629 after 1601-01-01, 03:14:07
STAT_TYPICAL_VALUES ==
    [ accessed_time |-> FileTime(159629, 11647, 111111, 1),
      bytes_used |-> 4096,
      created_time |-> FileTime(159629, 11647, 222222, 2),
      gid |-> 1000,
      length |-> 0,
      metadata_modified_time |-> FileTime(159629, 11647, 333333, 3),
      nlink |-> 1,
      spec_data |-> 0,
      uid |-> 1000,
      unix_mode |-> 16877,
      userdata_modified_time |-> FileTime(159629, 11647, 444444, 4) ]

EXTRA_INFO_TYPICAL_VALUES ==
    [ dos_flags |-> 0,
      file_feature_flags |-> 2,
      file_type |-> 16384,
      parent_cookie |-> 4,
      security_descriptor_object_number |-> 5,
      software_metadata_object_number |-> 6,
      virtual_volume_tag_number |-> 7,
      virus_scan_version_number |-> 8,
      volume_virus_scan_id |-> 9 ]

\* fsapi.StatInfo / fsapi.ExtraInfo objects: the class and the attributes
StatInfo(a) == [class |-> "StatInfo", attrs |-> a]
ExtraInfo(a) == [class |-> "ExtraInfo", attrs |-> a]

\* a value of the field that differs from v
OtherValue(field, v) ==
    IF field \in TimeFields THEN [v EXCEPT !.ticks = (@ + 1) % 10] ELSE v + 1

\* the objects that differ from obj in exactly the fields of D
Changed(obj, D) ==
    [obj EXCEPT !.attrs =
        [f \in DOMAIN obj.attrs |->
            IF f \in D THEN OtherValue(f, obj.attrs[f]) ELSE obj.attrs[f]]]

\* the sets of at most n elements of S
RECURSIVE SubsetsUpTo(_, _)
SubsetsUpTo(S, n) ==
    IF n = 0 THEN {{}}
    ELSE LET smaller == SubsetsUpTo(S, n - 1)
         IN  smaller \cup {D \cup {x} : D \in smaller, x \in S}

(***************************************************************************)
(* api.py: FsApiWrapper.compare_file_info                                  *)
(***************************************************************************)
\* for attr in attr_list: if a != b: log.error(...); return
RECURSIVE FirstMismatch(_, _, _)
FirstMismatch(attr_list, fi1, fi2) ==
    IF attr_list = <<>> THEN <<>>
    ELSE LET attr == Head(attr_list)
         IN  IF attr \notin DOMAIN fi1.attrs \/ attr \notin DOMAIN fi2.attrs
             THEN <<"AttributeError", attr>>
             ELSE IF fi1.attrs[attr] # fi2.attrs[attr]
                  THEN <<"mismatch", attr>>
                  ELSE FirstMismatch(Tail(attr_list), fi1, fi2)

\* mutant: the exceptions are not taken out of the list
AttrList_keeps_exceptions(fi1, exceptions_, only_these_) ==
    IF Len(only_these_) > 0 THEN only_these_
    ELSE IF fi1.class = "StatInfo" THEN STAT_INFO_ATTRS
         ELSE EXTRA_INFO_ATTRS

\* the list compare_file_info walks: only_these or the list of the category
\* of f_info1, without the exceptions
AttrList(fi1, exceptions_, only_these_) ==
    LET attr_list ==
            IF Len(only_these_) > 0 THEN only_these_
            ELSE IF fi1.class = "StatInfo" THEN STAT_INFO_ATTRS
                 ELSE EXTRA_INFO_ATTRS
    IN  NotIn(attr_list, exceptions_)

\* the result: what is returned (True or None), the field log.error names,
\* and the exception raised when an attribute does not exist
compare_file_info(fi1, fi2, exceptions_, only_these_) ==
    LET m == FirstMismatch(AttrList(fi1, exceptions_, only_these_), fi1, fi2)
    IN  IF m = <<>>
        THEN [ret |-> PyTrue, logged |-> PyNone, raised |-> PyNone]
        ELSE IF m[1] = "mismatch"
             THEN [ret |-> PyNone, logged |-> m[2], raised |-> PyNone]
             ELSE [ret |-> PyNone, logged |-> PyNone, raised |-> "AttributeError"]

(***************************************************************************)
(* static.py: filetime_to_dt, and the datetime arithmetic of api.py:211    *)
(***************************************************************************)
SECONDS_PER_DAY == 86400
MICROS_PER_SECOND == 1000000
TICKS_PER_MICRO == 10

\* EPOCH_AS_FILETIME = 116444736000000000 = 134774 days of 864 * 10^9 ticks
EPOCH_AS_FILETIME == FileTime(134774, 0, 0, 0)

\* a - b on filetimes, in mixed radix with borrows
FileTimeMinus(a, b) ==
    LET t == a.ticks - b.ticks
        bt == IF t < 0 THEN 1 ELSE 0
        u == a.usecs - b.usecs - bt
        bu == IF u < 0 THEN 1 ELSE 0
        s == a.secs - b.secs - bu
        bs == IF s < 0 THEN 1 ELSE 0
    IN  FileTime(a.days - b.days - bs,
                 s + bs * SECONDS_PER_DAY,
                 u + bu * MICROS_PER_SECOND,
                 t + bt * TICKS_PER_MICRO)

\* a datetime: days since 1970-01-01, second of the day, microsecond
DateTime(d, s, u) == [days |-> d, secs |-> s, usecs |-> u]

\* usec = (filetime - EPOCH_AS_FILETIME) // 10: the floor drops the ticks;
\* datetime(1970, 1, 1) + timedelta(microseconds=usec)
filetime_to_dt(filetime) ==
    LET diff == FileTimeMinus(filetime, EPOCH_AS_FILETIME)
    IN  DateTime(diff.days, diff.secs, diff.usecs)

\* a - b on datetimes: a timedelta, normalised as Python does, with
\* 0 <= seconds < 86400 and 0 <= microseconds < 10^6 and days of either sign
TimeDelta(a, b) ==
    LET u == a.usecs - b.usecs
        bu == IF u < 0 THEN 1 ELSE 0
        s == a.secs - b.secs - bu
        bs == IF s < 0 THEN 1 ELSE 0
    IN  [days |-> a.days - b.days - bs,
         seconds |-> s + bs * SECONDS_PER_DAY,
         microseconds |-> u + bu * MICROS_PER_SECOND]

\* the filetime of a datetime (the inverse of filetime_to_dt up to the ticks)
DtToFileTime(dt, ticks) ==
    FileTime(dt.days + EPOCH_AS_FILETIME.days, dt.secs, dt.usecs, ticks)

(***************************************************************************)
(* static.py: OpRequirements.FIELD_FLAG_DICT                               *)
(***************************************************************************)
FIELD_FLAG_DICT ==
    [ return_pre_op_attr |-> 64,
      return_stat_post_op_attr |-> 128,
      return_extra_post_op_attr |-> 1,
      metadata_modified_time |-> 2,
      userdata_modified_time |-> 4,
      accessed_time |-> 8,
      created_time |-> 16,
      dos_flags |-> 32 ]

\* the keys of FIELD_FLAG_DICT in the order of the source
FIELD_FLAG_KEYS ==
    << "return_pre_op_attr", "return_stat_post_op_attr",
       "return_extra_post_op_attr", "metadata_modified_time",
       "userdata_modified_time", "accessed_time", "created_time", "dos_flags" >>

RETURN_FLAGS ==
    << "return_pre_op_attr", "return_stat_post_op_attr",
       "return_extra_post_op_attr" >>

(***************************************************************************)
(* api.py: FsApiWrapper.compare_all_attributes                             *)
(* A snapshot (the result of get_attr) is the pair <<StatInfo, ExtraInfo>>; *)
(* a missing snapshot (None) is the empty tuple, which is falsy as well.   *)
(* attrs_ is the PrePostAttributes object an operation returns.             *)
(***************************************************************************)
Passed == [kind |-> "pass", at |-> <<>>]
Raised(kind, at) == [kind |-> kind, at |-> at]

\* api.py:170-182: the requested fields of one category, in the order of the
\* request
RECURSIVE UpdatedFields(_, _)
UpdatedFields(req_, category_attrs) ==
    IF req_ = <<>> THEN <<>>
    ELSE LET field == Head(req_)
             rest == UpdatedFields(Tail(req_), category_attrs)
         IN  IF InList(field, RETURN_FLAGS) THEN rest
             ELSE IF InList(field, category_attrs) THEN <<field>> \o rest
             ELSE rest

\* api.py:182: raise AssertionError(f"field {field} not recognized")
HasUnrecognizedField(req_) ==
    \E i \in 1..Len(req_) :
        /\ ~InList(req_[i], RETURN_FLAGS)
        /\ ~InList(req_[i], STAT_INFO_ATTRS)
        /\ ~InList(req_[i], EXTRA_INFO_ATTRS)

\* mutant: metadata_modified_time is taken as updated on every backend
UpdatedStat_always_mmt(fs_type_, req_) ==
    UpdatedFields(req_, STAT_INFO_ATTRS) \o <<"metadata_modified_time">>

\* mutant: metadata_modified_time is taken as updated on no backend
UpdatedStat_never_mmt(fs_type_, req_) == UpdatedFields(req_, STAT_INFO_ATTRS)

\* api.py:184-186: metadata modified time is always updated in sofs
UpdatedStat(fs_type_, req_) ==
    IF fs_type_ = "sofs"
    THEN UpdatedFields(req_, STAT_INFO_ATTRS) \o <<"metadata_modified_time">>
    ELSE UpdatedFields(req_, STAT_INFO_ATTRS)

\* mutant: no requested field has to change
SkipsChangeCheck_always(fs_type_, req_attr) == TRUE

\* api.py:198-201: the field the change and recency assertions leave out
SkipsChangeCheck(fs_type_, req_attr) ==
    /\ fs_type_ \in {"fsapi", "sofs"}
    /\ req_attr \in {"metadata_modified_time"}

\* api.py:211: (current_time_ - dt_out).seconds == 0
IsRecent(current_time_, filetime) ==
    TimeDelta(current_time_, filetime_to_dt(filetime)).seconds = 0

\* api.py:196-211: the loop over updated_fields["stat"]; the first assertion
\* that fails, or Passed
RECURSIVE UpdatedLoop(_, _, _, _, _)
UpdatedLoop(fs_type_, updated, stat_in, stat_out, current_time_) ==
    IF updated = <<>> THEN Passed
    ELSE LET req_attr == Head(updated)
             rest == UpdatedLoop(fs_type_, Tail(updated), stat_in, stat_out, current_time_)
         IN  IF SkipsChangeCheck(fs_type_, req_attr) THEN rest
             ELSE IF ~(stat_in.attrs[req_attr] # stat_out.attrs[req_attr])
                  THEN Raised("AssertionError", <<"does not change", req_attr>>)
             ELSE IF ~IsRecent(current_time_, stat_out.attrs[req_attr])
                  THEN Raised("AssertionError", <<"not recent", req_attr>>)
             ELSE rest

\* assert self.compare_file_info(...)
AssertCompare(fi1, fi2, exceptions_, only_these_, at) ==
    LET r == compare_file_info(fi1, fi2, exceptions_, only_these_)
    IN  IF r.raised # PyNone THEN Raised(r.raised, <<at>>)
        ELSE IF r.ret = PyTrue THEN Passed
        ELSE Raised("AssertionError", <<at, r.logged>>)

PRE_OP_FIELDS == <<"length", "metadata_modified_time", "userdata_modified_time">>

compare_all_attributes(fs_type_, req_, attrs_, f_info_in_, f_info_out_, current_time_, extra_exceptions_) ==
    LET preOp ==   \* api.py:135-148
            IF InList("return_pre_op_attr", req_)
            THEN AssertCompare(f_info_in_[1], attrs_.pre_op,
                               extra_exceptions_.stat, PRE_OP_FIELDS, "pre_op")
            ELSE Passed
        statPost ==   \* api.py:149-157
            IF InList("return_stat_post_op_attr", req_) /\ f_info_out_ # <<>>
            THEN AssertCompare(f_info_out_[1], attrs_.stat_post_op,
                               extra_exceptions_.stat, <<>>, "stat_post_op")
            ELSE Passed
        extraPost ==   \* api.py:159-167
            IF InList("return_extra_post_op_attr", req_) /\ f_info_out_ # <<>>
            THEN AssertCompare(f_info_out_[2], attrs_.extra_post_op,
                               extra_exceptions_.extra, <<>>, "extra_post_op")
            ELSE Passed
        updatedStat == UpdatedStat(fs_type_, req_)
        updatedExtra == UpdatedFields(req_, EXTRA_INFO_ATTRS)
        statSame ==   \* api.py:190-195
            IF f_info_out_ # <<>>
            THEN AssertCompare(f_info_out_[1], f_info_in_[1],
                               updatedStat \o extra_exceptions_.stat, <<>>,
                               "stat unchanged")
            ELSE Passed
        statUpdated ==   \* api.py:196-211
            IF f_info_out_ # <<>>
            THEN UpdatedLoop(fs_type_, updatedStat, f_info_in_[1], f_info_out_[1],
                             current_time_)
            ELSE Passed
        extraSame ==   \* api.py:215-220
            IF f_info_out_ # <<>>
            THEN AssertCompare(f_info_out_[2], f_info_in_[2],
                               updatedExtra \o extra_exceptions_.extra, <<>>,
                               "extra unchanged")
            ELSE Passed
    IN  IF preOp # Passed THEN preOp
        ELSE IF statPost # Passed THEN statPost
        ELSE IF extraPost # Passed THEN extraPost
        ELSE IF HasUnrecognizedField(req_)
             THEN Raised("AssertionError", <<"not recognized">>)
        ELSE IF statSame # Passed THEN statSame
        ELSE IF statUpdated # Passed THEN statUpdated
        ELSE extraSame

(***************************************************************************)
(* One call of verify_returned_flag_field                                  *)
(***************************************************************************)
OptBool == {PyNone, PyTrue, PyFalse}

vrffInit ==
    /\ flag \in 0..MaxFlag
    /\ pre \in OptBool
    /\ stat_post \in OptBool
    /\ extra_post \in OptBool
    /\ vrff_result = "pending"

vrffIdle ==
    /\ flag = 0
    /\ pre = PyNone
    /\ stat_post = PyNone
    /\ extra_post = PyNone
    /\ vrff_result = "unused"

VerifyReturnedFlagField ==
    /\ vrff_result = "pending"
    /\ vrff_result' = verify_returned_flag_field(flag, pre, stat_post, extra_post)
    /\ UNCHANGED <<flag, pre, stat_post, extra_post>>
    /\ UNCHANGED <<cfiVars, caaVars, cofaVars, fsVars, rbwVars, ehcVars, giVars, ftrVars>>

(***************************************************************************)
(* One call of compare_file_info                                           *)
(***************************************************************************)
cfiPending == [ret |-> "pending", logged |-> PyNone, raised |-> PyNone]

cfiInit ==
    /\ f_info1 \in {StatInfo(STAT_TYPICAL_VALUES), ExtraInfo(EXTRA_INFO_TYPICAL_VALUES)}
    /\ f_info2 \in {Changed(f_info1, D) : D \in SubsetsUpTo(DOMAIN f_info1.attrs, MaxDiff)}
    /\ exceptions \in SeqsUpTo(DOMAIN f_info1.attrs, MaxExceptions)
    /\ only_these \in SeqsUpTo(DOMAIN f_info1.attrs, MaxOnlyThese)
    /\ cfi_result = cfiPending

cfiIdle ==
    /\ f_info1 = PyNone
    /\ f_info2 = PyNone
    /\ exceptions = <<>>
    /\ only_these = <<>>
    /\ cfi_result = [ret |-> "unused", logged |-> PyNone, raised |-> PyNone]

CompareFileInfo ==
    /\ cfi_result.ret = "pending"
    /\ cfi_result' = compare_file_info(f_info1, f_info2, exceptions, only_these)
    /\ UNCHANGED <<f_info1, f_info2, exceptions, only_these>>
    /\ UNCHANGED <<vrffVars, caaVars, cofaVars, fsVars, rbwVars, ehcVars, giVars, ftrVars>>

(***************************************************************************)
(* One call of compare_all_attributes                                      *)
(***************************************************************************)
\* the backends open_filesystem accepts (api.py:74-81)
FsTypes == {"gfs", "sofs", "fsapi"}

\* the lists of at most n distinct keys of FIELD_FLAG_DICT, in its order
ReqLists(n) ==
    {NotIn(FIELD_FLAG_KEYS, NotIn(FIELD_FLAG_KEYS, SetToList)) :
        SetToList \in {l \in SeqsUpTo(Elems(FIELD_FLAG_KEYS), n) :
                          \A i, j \in 1..Len(l) : i < j => l[i] # l[j]}}

\* the snapshot get_attr returns for an object created with the typical values
TypicalSnapshot ==
    <<StatInfo(STAT_TYPICAL_VALUES), ExtraInfo(EXTRA_INFO_TYPICAL_VALUES)>>

\* the fields the environment varies: the four timestamps, two other stat
\* fields and two extra fields
ProbeFields ==
    TimeFields \cup {"length", "unix_mode", "dos_flags", "parent_cookie"}

\* the time at which the operation returns: 2038-01-24 01:00:00.5 UTC
Now == DateTime(24860, 3600, 500000)

\* the values an updated timestamp takes: a quarter second before Now and up
\* to MaxDaysOld whole days before that, two seconds before Now, and three
\* quarters of a second less than a day after Now
NewTimes ==
    {DtToFileTime(DateTime(Now.days - k, Now.secs, 250000), 5) : k \in 0..MaxDaysOld}
    \cup {DtToFileTime(DateTime(Now.days, Now.secs - 2, 250000), 5),
          DtToFileTime(DateTime(Now.days + 1, Now.secs - 1, 750000), 5)}

\* the snapshots after an operation that changed exactly the fields of D: a
\* changed timestamp takes one of NewTimes, another field its other value
SnapshotsAfter(before, D) ==
    LET put(info, c) ==
            [info EXCEPT !.attrs =
                [f \in DOMAIN info.attrs |->
                    IF f \notin D THEN info.attrs[f]
                    ELSE IF f \in TimeFields THEN c[f]
                    ELSE OtherValue(f, info.attrs[f])]]
    IN  {<<put(before[1], c), put(before[2], c)>> :
            c \in [D \cap TimeFields -> NewTimes]}

\* an exception list per category naming the fields of the list l
ExtraExceptions(l) ==
    [stat |-> NotIn(l, EXTRA_INFO_ATTRS), extra |-> NotIn(l, STAT_INFO_ATTRS)]

\* the PrePostAttributes an operation returns when the payload is accurate
AccurateAttrs(flags_, before, after) ==
    [flags |-> flags_,
     pre_op |-> before[1],
     stat_post_op |-> IF after = <<>> THEN before[1] ELSE after[1],
     extra_post_op |-> IF after = <<>> THEN before[2] ELSE after[2]]

caaPending == [kind |-> "pending", at |-> <<>>]

caaInit ==
    /\ fs_type \in FsTypes
    /\ req \in ReqLists(MaxReq)
    /\ f_info_in = TypicalSnapshot
    /\ f_info_out \in {<<>>} \cup
            UNION {SnapshotsAfter(f_info_in, D) : D \in SubsetsUpTo(ProbeFields, MaxChanged)}
    /\ attrs = AccurateAttrs(0, f_info_in, f_info_out)
    /\ current_time = Now
    /\ extra_exceptions \in
            {ExtraExceptions(l) : l \in SeqsUpTo(ProbeFields, MaxExtraExceptions)}
    /\ caa_result = caaPending

caaArgsIdle ==
    /\ req = <<>>
    /\ attrs = PyNone
    /\ f_info_in = <<>>
    /\ f_info_out = <<>>
    /\ current_time = Now
    /\ extra_exceptions = ExtraExceptions(<<>>)
    /\ caa_result = [kind |-> "unused", at |-> <<>>]

caaIdle == fs_type = "gfs" /\ caaArgsIdle

CompareAllAttributes ==
    /\ caa_result.kind = "pending"
    /\ caa_result' = compare_all_attributes(fs_type, req, attrs, f_info_in,
                                            f_info_out, current_time,
                                            extra_exceptions)
    /\ UNCHANGED <<fs_type, req, attrs, f_info_in, f_info_out, current_time,
                   extra_exceptions>>
    /\ UNCHANGED <<vrffVars, cfiVars, cofaVars, fsVars, rbwVars, ehcVars, giVars, ftrVars>>

(***************************************************************************)
(* static.py: OpRequirements.fields_to_reqs                                *)
(***************************************************************************)
\* the mutant adds the flags instead of or-ing them
RECURSIVE fields_to_reqs_adds(_)
fields_to_reqs_adds(fields) ==
    IF fields = <<>> THEN [reqs |-> 0, raised |-> PyNone]
    ELSE LET rest == fields_to_reqs_adds(SubSeq(fields, 1, Len(fields) - 1))
             field == fields[Len(fields)]
         IN  IF rest.raised # PyNone THEN rest
             ELSE IF field \notin DOMAIN FIELD_FLAG_DICT
                  THEN [reqs |-> 0, raised |-> "KeyError"]
                  ELSE [reqs |-> rest.reqs + FIELD_FLAG_DICT[field],
                        raised |-> PyNone]

\* reqs |= cls.FIELD_FLAG_DICT[field], which raises KeyError for a field
\* that is not a key
RECURSIVE fields_to_reqs(_)
fields_to_reqs(fields) ==
    IF fields = <<>> THEN [reqs |-> 0, raised |-> PyNone]
    ELSE LET rest == fields_to_reqs(SubSeq(fields, 1, Len(fields) - 1))
             field == fields[Len(fields)]
         IN  IF rest.raised # PyNone THEN rest
             ELSE IF field \notin DOMAIN FIELD_FLAG_DICT
                  THEN [reqs |-> 0, raised |-> "KeyError"]
                  ELSE [reqs |-> BitOr(rest.reqs, FIELD_FLAG_DICT[field]),
                        raised |-> PyNone]

(***************************************************************************)
(* api.py: FsApiWrapper.check_op_flag_attr                                 *)
(* The oracle runs one operation of the FileSystem wrapper between two     *)
(* get_attr snapshots of the parent and of the target.  The file system is *)
(* the environment: fs_parent and fs_target are the attributes it holds    *)
(* for the two objects (the empty tuple when the object does not exist).   *)
(* An absent value (None) is the empty tuple; the attributes an operation  *)
(* returns are <<>> or <<PrePostAttributes>>.                              *)
(***************************************************************************)
\* the operations under test, by operation.__name__
Operations ==
    {"create_file", "mkdir", "symlink", "unlink", "rmdir", "create_stream", "write"}

\* api.py:254, 440: the operations whose target is described by op_args
CREATE_OPS == {"create_file", "mkdir", "symlink"}

\* api.py:298, 373: the operations after which the target is not fetched
REMOVE_OPS == {"unlink", "rmdir"}

\* filesystem.py:387, 503, 1133, 1211, 1234: op_ret[1] is a parent_attr;
\* filesystem.py:531, 757: create_stream and write return None there
ReturnsParent(operation_) ==
    operation_ \in {"create_file", "mkdir", "symlink", "unlink", "rmdir"}

\* filesystem.py:1234: rmdir returns None as op_ret[2]
ReturnsTarget(operation_) == operation_ # "rmdir"

\* api.py:387: "stream" not in operation.__name__
IsStreamOp(operation_) == operation_ \in {"create_stream"}

\* the categories of special_fields
Categories == {"stat_parent", "extra_parent", "stat_target", "extra_target"}

NoSpecialFields == [c \in Categories |-> <<>>]

\* special_fields with the one entry {category: {field: {before, after}}}
SpecialEntry(category, field, before_, after_) ==
    [c \in Categories |->
        IF c = category THEN field :> [before |-> before_, after |-> after_]
        ELSE <<>>]

\* the keys of a dict as a list
RECURSIVE ListOf(_)
ListOf(S) ==
    IF S = {} THEN <<>>
    ELSE LET k == CHOOSE k \in S : TRUE IN <<k>> \o ListOf(S \ {k})

KeysOf(d) == ListOf(DOMAIN d)

\* d.pop(flag, None) for every flag of the list
PopAll(d, flags_) == [k \in (DOMAIN d) \ Elems(flags_) |-> d[k]]

PyBool(b) == IF b THEN PyTrue ELSE PyFalse

\* api.py:262-281, 349-355, 366-380, 394-399: the assertions on the special
\* fields of one category against one snapshot; info is <<>> for None
SpecialCheck(entries, snapshot, index, which, skipped, at) ==
    IF DOMAIN entries \subseteq skipped THEN Passed
    ELSE IF snapshot = <<>> THEN Raised("TypeError", <<at>>)
    ELSE IF \E spf \in (DOMAIN entries) \ skipped :
                spf \notin DOMAIN snapshot[index].attrs
         THEN Raised("AttributeError", <<at>>)
    ELSE IF \E spf \in (DOMAIN entries) \ skipped :
                snapshot[index].attrs[spf] # entries[spf][which]
         THEN Raised("AssertionError", <<at>>)
    ELSE Passed

\* the first result of the list that is not Passed
RECURSIVE FirstFailure(_)
FirstFailure(results) ==
    IF results = <<>> THEN Passed
    ELSE IF Head(results) # Passed THEN Head(results)
    ELSE FirstFailure(Tail(results))

\* api.py:262-281: check special fields before operation
SpecialBefore(special_fields_, parent_before, target_before) ==
    FirstFailure(<<
        SpecialCheck(special_fields_.stat_parent, parent_before, 1, "before",
                     {"bytes_used"}, "stat_parent before"),
        SpecialCheck(special_fields_.extra_parent, parent_before, 2, "before",
                     {"bytes_used"}, "extra_parent before"),
        SpecialCheck(special_fields_.stat_target, target_before, 1, "before",
                     {"bytes_used"}, "stat_target before"),
        SpecialCheck(special_fields_.extra_target, target_before, 2, "before",
                     {"bytes_used"}, "extra_target before") >>)

\* api.py:310-320, 326-336: assert verify_returned_flag_field(...)
FlagCheck(attr, req_, at) ==
    IF verify_returned_flag_field(
           attr.flags,
           PyBool(InList("return_pre_op_attr", req_)),
           PyBool(InList("return_stat_post_op_attr", req_)),
           PyBool(InList("return_extra_post_op_attr", req_))) = PyTrue
    THEN Passed
    ELSE Raised("AssertionError", <<"Error verifying flag", at>>)

\* mutant: the target flags are verified only for a target with several links
ChecksTargetFlags_only_nlink(operation_, target_before) ==
    target_before[1].attrs.nlink > 1

\* mutant: the target flags of unlink are never verified
ChecksTargetFlags_not_for_unlink(operation_, target_before) ==
    operation_ \notin {"unlink"}

\* api.py:322-325: operation.__name__ not in ["unlink"]
\*                 or file_info_target_before[0].nlink > 1
ChecksTargetFlags(operation_, target_before) ==
    \/ operation_ \notin {"unlink"}
    \/ target_before[1].attrs.nlink > 1

\* api.py:308-336: first check that returned flags attr are consistent
FlagChecks(operation_, op_ret_, req_parent_, req_target_, target_before) ==
    FirstFailure(<<
        IF op_ret_.parent_attr # <<>>
        THEN FlagCheck(op_ret_.parent_attr[1], req_parent_, "parent")
        ELSE Passed,
        IF op_ret_.target_attr # <<>>
        THEN IF target_before = <<>> THEN Raised("TypeError", <<"target flags">>)
             ELSE IF ChecksTargetFlags(operation_, target_before)
                  THEN FlagCheck(op_ret_.target_attr[1], req_target_, "target")
                  ELSE Passed
        ELSE Passed >>)

\* api.py:358-364, 383-393, 401-407: the returned post-op attributes of one
\* category against the snapshot fetched after the operation, field by field
PayloadLoop(attr, category, snapshot, index, fields, at) ==
    IF fields = <<>> THEN Passed
    ELSE IF attr = <<>> THEN Raised("AttributeError", <<at>>)
    ELSE IF snapshot = <<>> THEN Raised("TypeError", <<at>>)
    ELSE LET m == FirstMismatch(fields, attr[1][category], snapshot[index])
         IN  IF m = <<>> THEN Passed
             ELSE IF m[1] = "mismatch" THEN Raised("AssertionError", <<at, m[2]>>)
             ELSE Raised("AttributeError", <<at, m[2]>>)

\* api.py:350, 375: self.fs_type == "gfs" or spf not in ["bytes_used", "length"]
StatSkipped(fs_type_) ==
    IF fs_type_ = "gfs" THEN {} ELSE {"bytes_used", "length"}

\* api.py:385-388: field not in ["length", "bytes_used"]
\*                 or "stream" not in operation.__name__
TargetStatFields(operation_) ==
    IF IsStreamOp(operation_)
    THEN NotIn(STAT_INFO_ATTRS, <<"length", "bytes_used">>)
    ELSE STAT_INFO_ATTRS

\* api.py:349-407: the special fields after the operation and the values of
\* the returned attributes
ReturnedValues(fs_type_, operation_, special_fields_, op_ret_, req_parent_, req_target_, parent_out, target_out) ==
    FirstFailure(<<
        SpecialCheck(special_fields_.stat_parent, parent_out, 1, "after",
                     StatSkipped(fs_type_), "stat_parent after"),
        IF InList("return_stat_post_op_attr", req_parent_)
        THEN PayloadLoop(op_ret_.parent_attr, "stat_post_op", parent_out, 1,
                         STAT_INFO_ATTRS, "parent stat_post_op")
        ELSE Passed,
        SpecialCheck(special_fields_.extra_parent, parent_out, 2, "after",
                     {}, "extra_parent after"),
        IF operation_ \notin REMOVE_OPS
        THEN FirstFailure(<<
                SpecialCheck(special_fields_.stat_target, target_out, 1, "after",
                             StatSkipped(fs_type_), "stat_target after"),
                IF InList("return_stat_post_op_attr", req_target_)
                THEN PayloadLoop(op_ret_.target_attr, "stat_post_op", target_out, 1,
                                 TargetStatFields(operation_), "target stat_post_op")
                ELSE Passed,
                SpecialCheck(special_fields_.extra_target, target_out, 2, "after",
                             {}, "extra_target after"),
                IF InList("return_extra_post_op_attr", req_target_)
                THEN PayloadLoop(op_ret_.target_attr, "extra_post_op", target_out, 2,
                                 EXTRA_INFO_ATTRS, "target extra_post_op")
                ELSE Passed >>)
        ELSE Passed >>)

\* if x not in list: list.append(x)
AppendIfMissing(list, x) == IF InList(x, list) THEN list ELSE Append(list, x)

\* api.py:414-418, 435-439: the timestamps excepted on fsapi and sofs
WithBackendExceptions(fs_type_, stat_keys, appended) ==
    IF fs_type_ \in {"fsapi", "sofs"}
    THEN AppendIfMissing(AppendIfMissing(stat_keys, "metadata_modified_time"),
                         "userdata_modified_time") \o appended
    ELSE stat_keys

\* api.py:410-420: extra_exceptions of the parent
ParentExceptions(fs_type_, operation_, special_fields_) ==
    [stat |-> WithBackendExceptions(fs_type_, KeysOf(special_fields_.stat_parent),
                  IF operation_ = "symlink" THEN <<"unix_mode">> ELSE <<>>),
     extra |-> KeysOf(special_fields_.extra_parent)]

\* mutant: the create operations except no timestamp of their own
TargetExceptions_without_create_times(fs_type_, operation_, special_fields_) ==
    [stat |-> WithBackendExceptions(fs_type_, KeysOf(special_fields_.stat_target), <<>>),
     extra |-> KeysOf(special_fields_.extra_target)]

\* api.py:431-442: extra_exceptions of the target
TargetExceptions(fs_type_, operation_, special_fields_) ==
    [stat |-> WithBackendExceptions(fs_type_, KeysOf(special_fields_.stat_target),
                  IF operation_ \in CREATE_OPS
                  THEN <<"created_time", "accessed_time">> ELSE <<>>),
     extra |-> KeysOf(special_fields_.extra_target)]

\* api.py:422-429, 444-451: self.compare_all_attributes(...) with the
\* attributes and the snapshots of one side, any of which can be None
CallCompareAll(fs_type_, req_, attr, snapshot_in, snapshot_out, time_, exceptions_) ==
    LET wantsPre == InList("return_pre_op_attr", req_)
        wantsPost == \/ InList("return_stat_post_op_attr", req_)
                     \/ InList("return_extra_post_op_attr", req_)
    IN  IF wantsPre /\ attr = <<>> THEN Raised("AttributeError", <<"pre_op">>)
        ELSE IF wantsPre /\ snapshot_in = <<>> THEN Raised("TypeError", <<"pre_op">>)
        ELSE IF wantsPost /\ snapshot_out # <<>> /\ attr = <<>>
             THEN Raised("AttributeError", <<"post_op">>)
        ELSE IF snapshot_out # <<>> /\ snapshot_in = <<>>
             THEN Raised("TypeError", <<"unchanged">>)
        ELSE compare_all_attributes(fs_type_, req_,
                                    IF attr = <<>> THEN <<>> ELSE attr[1],
                                    snapshot_in, snapshot_out, time_, exceptions_)

(***************************************************************************)
(* One run of check_op_flag_attr against a backend                         *)
(***************************************************************************)
\* the lists of return_* toggles a test requests, in the order of RETURN_FLAGS
ToggleLists ==
    {NotIn(RETURN_FLAGS, ListOf(S)) : S \in SUBSET Elems(RETURN_FLAGS)}

\* field names a test can put in a request that are not keys of
\* FIELD_FLAG_DICT: a name that is no field at all, and a stat field that has
\* no request flag
UnknownFields == {"no_such_field", "length"}

\* field names a test can put in a request that are keys of FIELD_FLAG_DICT
\* and fields of an object as well
NamedFields == {"dos_flags"}

\* the requests of a test for an operation: the same toggles for the parent
\* and the target, or one toggle for one of them only, as far as the
\* operation returns attributes for them; or one name of UnknownFields for
\* one of them; or one name of NamedFields for the target
RequestPairs(operation_) ==
    {q \in ToggleLists \X ToggleLists :
        /\ \/ q[1] = q[2]
           \/ q[1] = <<>> /\ Len(q[2]) = 1
           \/ q[2] = <<>> /\ Len(q[1]) = 1
        /\ ~ReturnsParent(operation_) => q[1] = <<>>
        /\ ~ReturnsTarget(operation_) => q[2] = <<>>}
    \cup {<<IF s = "parent" THEN <<f>> ELSE <<>>,
            IF s = "target" THEN <<f>> ELSE <<>> >> :
            s \in {"parent", "target"}, f \in UnknownFields}
    \cup {<< <<>>, <<f>> >> : f \in NamedFields}

\* the flags a backend sets for the toggles of a request
ToggleBits(req_) ==
    (IF InList("return_pre_op_attr", req_) THEN PRE_OP ELSE 0)
    + (IF InList("return_stat_post_op_attr", req_) THEN STAT_POST_OP ELSE 0)
    + (IF InList("return_extra_post_op_attr", req_) THEN EXTRA_POST_OP ELSE 0)

\* the typical snapshot of an object with n links
WithNlink(snapshot, n) ==
    <<[snapshot[1] EXCEPT !.attrs.nlink = n], snapshot[2]>>

\* the stat and extra info a create operation is given as op_args[-2:]
OpArgsInfo == TypicalSnapshot

\* the special fields a test declares: none, or one field of one category
\* with the values the typical object has before and after
SpecialProbes ==
    {<<"extra_parent", 2, "parent_cookie">>, <<"stat_target", 1, "length">>}

SpecialChoices(operation_) ==
    {NoSpecialFields} \cup
    {SpecialEntry(p[1], p[3], TypicalSnapshot[p[2]].attrs[p[3]],
                  TypicalSnapshot[p[2]].attrs[p[3]]) :
        p \in {q \in SpecialProbes :
                  q[1] \in {"stat_parent", "extra_parent"} => ReturnsParent(operation_)}}

\* the special fields a test declares for the fields it names in the request
\* for the target
RequestedSpecial(req_) ==
    {SpecialEntry("extra_target", f, EXTRA_INFO_TYPICAL_VALUES[f],
                  EXTRA_INFO_TYPICAL_VALUES[f]) :
        f \in Elems(req_) \cap Elems(EXTRA_INFO_ATTRS)}

\* What a backend does beyond the plain operation, one effect each: it
\* returns flags with one bit flipped, it returns a pre_op / stat_post_op /
\* extra_post_op value that is not the one it holds, or it changes a field
\* of the object.
FlagBits == {PRE_OP, STAT_POST_OP, EXTRA_POST_OP, 8}

PayloadProbes ==
    {<<"pre_op", "length">>, <<"pre_op", "metadata_modified_time">>,
     <<"stat_post_op", "length">>, <<"extra_post_op", "parent_cookie">>}

ChangeProbes == {"metadata_modified_time", "created_time", "accessed_time"}

Effect(kind, side, field, bit) ==
    [kind |-> kind, side |-> side, field |-> field, bit |-> bit]

ReturnedSides(operation_) ==
    {s \in {"parent", "target"} :
        IF s = "parent" THEN ReturnsParent(operation_) ELSE ReturnsTarget(operation_)}

RemainingSides(operation_) ==
    {s \in {"parent", "target"} :
        IF s = "parent" THEN ReturnsParent(operation_) ELSE operation_ \notin REMOVE_OPS}

Effects(operation_) ==
    {Effect("flags", s, "", b) : s \in ReturnedSides(operation_), b \in FlagBits}
    \cup {Effect(p[1], s, p[2], 0) : s \in ReturnedSides(operation_), p \in PayloadProbes}
    \cup {Effect("changed", s, f, 0) : s \in RemainingSides(operation_), f \in ChangeProbes}

\* the fields of the effects of one kind on one side
FieldsOf(F, kind, side) == {e.field : e \in {x \in F : x.kind = kind /\ x.side = side}}

\* flags with the bits of the list flipped
RECURSIVE FlipBits(_, _)
FlipBits(flags_, bits) ==
    IF bits = <<>> THEN flags_
    ELSE LET b == Head(bits)
         IN  FlipBits(IF (flags_ \div b) % 2 = 1 THEN flags_ - b ELSE flags_ + b,
                      Tail(bits))

\* a timestamp the backend sets during the operation: a quarter second
\* before the operation returns
RecentTime == DtToFileTime(DateTime(Now.days, Now.secs, 250000), 5)

\* the snapshot of an object after the backend changed the fields of D
ChangedByOp(snapshot, D) ==
    LET put(info) ==
            [info EXCEPT !.attrs =
                [f \in DOMAIN info.attrs |->
                    IF f \notin D THEN info.attrs[f]
                    ELSE IF f \in TimeFields THEN RecentTime
                    ELSE OtherValue(f, info.attrs[f])]]
    IN  <<put(snapshot[1]), put(snapshot[2])>>

\* the PrePostAttributes the backend returns for one side
ReturnedAttrs(F, side, req_, before, after) ==
    LET held == IF after = <<>> THEN before ELSE after
    IN  [flags |-> FlipBits(ToggleBits(req_),
                            ListOf({e.bit : e \in {x \in F : x.kind = "flags" /\ x.side = side}})),
         pre_op |-> Changed(before[1], FieldsOf(F, "pre_op", side)),
         stat_post_op |-> Changed(held[1], FieldsOf(F, "stat_post_op", side)),
         extra_post_op |-> Changed(held[2], FieldsOf(F, "extra_post_op", side))]

\* the target the backend holds after the operation
TargetAfter(operation_, F, target_before) ==
    IF operation_ = "rmdir" THEN <<>>
    ELSE IF operation_ = "unlink"
         THEN IF target_before[1].attrs.nlink > 1
              THEN WithNlink(target_before, target_before[1].attrs.nlink - 1)
              ELSE <<>>
    ELSE ChangedByOp(target_before, FieldsOf(F, "changed", "target"))

cofaPending == [kind |-> "pending", at |-> <<>>]
NoOpRet == [parent_attr |-> <<>>, target_attr |-> <<>>]

cofaInit ==
    /\ operation \in Operations
    /\ parent = IF ReturnsParent(operation) THEN "/dir" ELSE PyNone
    /\ \E q \in RequestPairs(operation) : req_parent = q[1] /\ req_target = q[2]
    /\ special_fields \in SpecialChoices(operation) \cup RequestedSpecial(req_target)
    /\ fs_parent = IF parent # PyNone THEN TypicalSnapshot ELSE <<>>
    /\ fs_target \in
          IF operation \in CREATE_OPS THEN {<<>>}
          ELSE IF operation = "unlink"
               THEN {WithNlink(TypicalSnapshot, n) : n \in 1..MaxNlink}
               ELSE {TypicalSnapshot}
    /\ file_info_parent_before = <<>>
    /\ file_info_target_before = <<>>
    /\ req_flags = [target_requirements |-> 0, parent_requirements |-> 0]
    /\ op_ret = NoOpRet
    /\ current_time_cofa = <<>>
    /\ file_info_parent_out = <<>>
    /\ file_info_target_out = <<>>
    /\ pc = "get_attr_before"
    /\ cofa_result = cofaPending
    /\ cofa_calls = <<>>

cofaIdle ==
    /\ operation = PyNone
    /\ parent = PyNone
    /\ req_parent = <<>>
    /\ req_target = <<>>
    /\ special_fields = NoSpecialFields
    /\ fs_parent = <<>>
    /\ fs_target = <<>>
    /\ file_info_parent_before = <<>>
    /\ file_info_target_before = <<>>
    /\ req_flags = [target_requirements |-> 0, parent_requirements |-> 0]
    /\ op_ret = NoOpRet
    /\ current_time_cofa = <<>>
    /\ file_info_parent_out = <<>>
    /\ file_info_target_out = <<>>
    /\ pc = "idle"
    /\ cofa_result = [kind |-> "unused", at |-> <<>>]
    /\ cofa_calls = <<>>

\* the statements of check_op_flag_attr that cofa_calls records, by what they
\* do: a get_attr before the operation (api.py:252, 258), the checks of the
\* special fields before it (262-281), the call of the operation (293), the
\* reading of the clock (295), a get_attr after the operation (302, 305), the
\* checks of the returned flags (309-336), of the special fields after the
\* operation and of the returned values (349-407), and the two calls of
\* compare_all_attributes (422, 444)
Did(what, whom) == <<what, whom>>

\* api.py:251-259: the get_attr calls before the operation
SnapshotsBefore(operation_, parent_) ==
    (IF parent_ # PyNone THEN <<Did("get_attr before", "parent")>> ELSE <<>>)
    \o (IF operation_ \notin CREATE_OPS
        THEN <<Did("get_attr before", "target")>> ELSE <<>>)

\* api.py:298-306: the get_attr calls after the operation
SnapshotsAfterOp(operation_, parent_) ==
    (IF operation_ \notin REMOVE_OPS
     THEN <<Did("get_attr after", "target")>> ELSE <<>>)
    \o (IF parent_ # PyNone THEN <<Did("get_attr after", "parent")>> ELSE <<>>)

\* an assertion fails or an exception is raised: the call ends
Fails(result) ==
    /\ cofa_result' = result
    /\ pc' = "done"

\* api.py:251-259: call get_attr for parent and target
GetAttrBefore ==
    /\ pc = "get_attr_before"
    /\ cofa_calls' = cofa_calls \o SnapshotsBefore(operation, parent)
    /\ file_info_parent_before' = IF parent # PyNone THEN fs_parent ELSE <<>>
    /\ file_info_target_before' =
          IF operation \in CREATE_OPS THEN OpArgsInfo ELSE fs_target
    /\ pc' = "special_before"
    /\ UNCHANGED <<cofaArgs, special_fields, fsState, opOut, current_time_cofa,
                   afters, cofa_result>>
    /\ UNCHANGED <<vrffVars, cfiVars, caaVars, fsVars, rbwVars, ehcVars, giVars, ftrVars>>

\* api.py:261-281
CheckSpecialBefore ==
    /\ pc = "special_before"
    /\ cofa_calls' = cofa_calls \o <<Did("check special fields", "before")>>
    /\ LET r == SpecialBefore(special_fields, file_info_parent_before,
                              file_info_target_before)
       IN  IF r = Passed
           THEN pc' = "operation" /\ UNCHANGED cofa_result
           ELSE Fails(r)
    /\ UNCHANGED <<cofaArgs, special_fields, fsState, befores, opOut,
                   current_time_cofa, afters>>
    /\ UNCHANGED <<vrffVars, cfiVars, caaVars, fsVars, rbwVars, ehcVars, giVars, ftrVars>>

\* api.py:283-294: the request flags are built and the operation is called;
\* the backend runs it with at most MaxEffects effects of its own
CallOperation ==
    /\ pc = "operation"
    /\ LET t == fields_to_reqs(req_target)
           p == fields_to_reqs(req_parent)
       IN  IF t.raised # PyNone \/ p.raised # PyNone
           THEN /\ Fails(Raised("KeyError", <<"fields_to_reqs">>))
                /\ UNCHANGED <<fsState, opOut, cofa_calls>>
           ELSE /\ \E F \in SubsetsUpTo(Effects(operation), MaxEffects) :
                    LET parent_after ==
                            IF fs_parent = <<>> THEN <<>>
                            ELSE ChangedByOp(fs_parent, FieldsOf(F, "changed", "parent"))
                        target_after ==
                            TargetAfter(operation, F, file_info_target_before)
                    IN  /\ fs_parent' = parent_after
                        /\ fs_target' = target_after
                        /\ op_ret' =
                              [parent_attr |->
                                  IF ReturnsParent(operation)
                                  THEN <<ReturnedAttrs(F, "parent", req_parent,
                                             file_info_parent_before, parent_after)>>
                                  ELSE <<>>,
                               target_attr |->
                                  IF ReturnsTarget(operation)
                                  THEN <<ReturnedAttrs(F, "target", req_target,
                                             file_info_target_before, target_after)>>
                                  ELSE <<>>]
                /\ req_flags' = [target_requirements |-> t.reqs,
                                 parent_requirements |-> p.reqs]
                /\ cofa_calls' = Append(cofa_calls, Did("operation", operation))
                /\ pc' = "current_time"
                /\ UNCHANGED cofa_result
    /\ UNCHANGED <<cofaArgs, special_fields, befores, current_time_cofa, afters>>
    /\ UNCHANGED <<vrffVars, cfiVars, caaVars, fsVars, rbwVars, ehcVars, giVars, ftrVars>>

\* mutant: the clock is read after the snapshots have been fetched
RecordCurrentTime_after_snapshots ==
    /\ pc = "current_time"
    /\ cofa_calls' = cofa_calls \o SnapshotsAfterOp(operation, parent)
                                \o <<Did("now", "")>>
    /\ current_time_cofa' = Now
    /\ pc' = "get_attr_after"
    /\ UNCHANGED <<cofaArgs, special_fields, fsState, befores, opOut, afters,
                   cofa_result>>
    /\ UNCHANGED <<vrffVars, cfiVars, caaVars, fsVars, rbwVars, ehcVars, giVars, ftrVars>>

\* api.py:295: current_time = datetime.now(timezone.utc)
RecordCurrentTime ==
    /\ pc = "current_time"
    /\ cofa_calls' = cofa_calls \o <<Did("now", "")>>
    /\ current_time_cofa' = Now
    /\ pc' = "get_attr_after"
    /\ UNCHANGED <<cofaArgs, special_fields, fsState, befores, opOut, afters,
                   cofa_result>>
    /\ UNCHANGED <<vrffVars, cfiVars, caaVars, fsVars, rbwVars, ehcVars, giVars, ftrVars>>

\* api.py:297-306: call get_attr for parent and target
GetAttrAfter ==
    /\ pc = "get_attr_after"
    /\ cofa_calls' = cofa_calls \o SnapshotsAfterOp(operation, parent)
    /\ file_info_target_out' =
          IF operation \in REMOVE_OPS THEN <<>> ELSE fs_target
    /\ file_info_parent_out' = IF parent # PyNone THEN fs_parent ELSE <<>>
    /\ pc' = "flags"
    /\ UNCHANGED <<cofaArgs, special_fields, fsState, befores, opOut,
                   current_time_cofa, cofa_result>>
    /\ UNCHANGED <<vrffVars, cfiVars, caaVars, fsVars, rbwVars, ehcVars, giVars, ftrVars>>

\* api.py:308-336
CheckFlags ==
    /\ pc = "flags"
    /\ cofa_calls' = cofa_calls \o <<Did("check flags", "")>>
    /\ LET r == FlagChecks(operation, op_ret, req_parent, req_target,
                           file_info_target_before)
       IN  IF r = Passed
           THEN pc' = "pop" /\ UNCHANGED cofa_result
           ELSE Fails(r)
    /\ UNCHANGED <<cofaArgs, special_fields, fsState, befores, opOut,
                   current_time_cofa, afters>>
    /\ UNCHANGED <<vrffVars, cfiVars, caaVars, fsVars, rbwVars, ehcVars, giVars, ftrVars>>

\* api.py:338-347: the requested flags are popped from the caller's dict
PopRequested ==
    /\ pc = "pop"
    /\ cofa_calls' = cofa_calls \o <<Did("pop", "")>>
    /\ special_fields' =
          [stat_parent |-> PopAll(special_fields.stat_parent, req_parent),
           extra_parent |-> PopAll(special_fields.extra_parent, req_parent),
           stat_target |-> PopAll(special_fields.stat_target, req_target),
           extra_target |-> PopAll(special_fields.extra_target, req_target)]
    /\ pc' = "returned_values"
    /\ UNCHANGED <<cofaArgs, fsState, befores, opOut, current_time_cofa, afters,
                   cofa_result>>
    /\ UNCHANGED <<vrffVars, cfiVars, caaVars, fsVars, rbwVars, ehcVars, giVars, ftrVars>>

\* api.py:349-407
CheckReturnedValues ==
    /\ pc = "returned_values"
    /\ cofa_calls' = cofa_calls \o <<Did("check returned values", "after")>>
    /\ LET r == ReturnedValues(fs_type, operation, special_fields, op_ret,
                               req_parent, req_target, file_info_parent_out,
                               file_info_target_out)
       IN  IF r = Passed
           THEN pc' = "compare_parent" /\ UNCHANGED cofa_result
           ELSE Fails(r)
    /\ UNCHANGED <<cofaArgs, special_fields, fsState, befores, opOut,
                   current_time_cofa, afters>>
    /\ UNCHANGED <<vrffVars, cfiVars, caaVars, fsVars, rbwVars, ehcVars, giVars, ftrVars>>

\* api.py:409-429
CompareParent ==
    /\ pc = "compare_parent"
    /\ cofa_calls' = cofa_calls \o <<Did("compare_all_attributes", "parent")>>
    /\ LET r == CallCompareAll(fs_type, req_parent, op_ret.parent_attr,
                               file_info_parent_before, file_info_parent_out,
                               current_time_cofa,
                               ParentExceptions(fs_type, operation, special_fields))
       IN  IF r = Passed
           THEN pc' = "compare_target" /\ UNCHANGED cofa_result
           ELSE Fails(r)
    /\ UNCHANGED <<cofaArgs, special_fields, fsState, befores, opOut,
                   current_time_cofa, afters>>
    /\ UNCHANGED <<vrffVars, cfiVars, caaVars, fsVars, rbwVars, ehcVars, giVars, ftrVars>>

\* api.py:431-453: the last comparison; return op_ret
CompareTarget ==
    /\ pc = "compare_target"
    /\ cofa_calls' = cofa_calls \o <<Did("compare_all_attributes", "target")>>
    /\ cofa_result' =
          CallCompareAll(fs_type, req_target, op_ret.target_attr,
                         file_info_target_before, file_info_target_out,
                         current_time_cofa,
                         TargetExceptions(fs_type, operation, special_fields))
    /\ pc' = "done"
    /\ UNCHANGED <<cofaArgs, special_fields, fsState, befores, opOut,
                   current_time_cofa, afters>>
    /\ UNCHANGED <<vrffVars, cfiVars, caaVars, fsVars, rbwVars, ehcVars, giVars, ftrVars>>

\* errno.ENOENT (filesystem.py:729)
ENOENT == 2

(***************************************************************************)
(* filesystem.py: the FileSystem wrapper operations                        *)
(* A Python value is a record: its type, its number when it is an int, and *)
(* its items when it is a tuple or a list.  The backend is a table         *)
(* api_status giving the status each API call answers with; a wrapper      *)
(* operation yields how it ended (return or AssertionError), the value it  *)
(* returned and the API calls it issued, in order.                         *)
(***************************************************************************)
PyInt(n) == [type |-> "int", val |-> n, items |-> <<>>]
PyObj(type) == [type |-> type, val |-> 0, items |-> <<>>]
PyTuple(items) == [type |-> "tuple", val |-> 0, items |-> items]
PyList(items) == [type |-> "list", val |-> 0, items |-> items]

Returned(value, calls) == [kind |-> "return", value |-> value, calls |-> calls]
AssertionFailed(calls) ==
    [kind |-> "AssertionError", value |-> PyObj("None"), calls |-> calls]

\* the paths of the calls: a directory under the root and a file in it, as
\* the lists of their components; os.path.split(path)[0] drops the last one
DirPath == <<"dir">>
FilePath == <<"dir", "f">>
ParentOf(path) == SubSeq(path, 1, Len(path) - 1)

\* one call of self.api.<name>: the call and the status it answers with
ApiCall(name_, st) == [call |-> name_, status |-> st[name_]]

\* an attribute payload, a handle, an inode as the API returns them; a failed
\* Open or Create returns no handle and a failed Lookup no inode
Attr == PyObj("PrePostAttributes")
HandleOf(c) == IF c.status = 0 THEN PyObj("Handle") ELSE PyObj("None")
InodeOf(c) == IF c.status = 0 THEN PyObj("Inode") ELSE PyObj("None")

\* filesystem.py:64-78
lookup(level, st, verify_) ==
    LET c == ApiCall("Lookup:" \o level, st)
    IN  IF verify_ /\ c.status # 0 THEN AssertionFailed(<<c>>)
        ELSE Returned(PyTuple(<<PyInt(c.status), Attr, Attr, InodeOf(c)>>), <<c>>)

\* filesystem.py:106-118: for level in levels
RECURSIVE LookupLevels(_, _, _, _)
LookupLevels(levels_, st, verify_, calls) ==
    IF levels_ = <<>> THEN Returned(PyObj("Inode"), calls)
    ELSE LET r == lookup(Head(levels_), st, FALSE)
             ret_code == r.value.items[1].val
             issued == calls \o r.calls
         IN  IF verify_ /\ ret_code # 0 THEN AssertionFailed(issued)
             ELSE IF ret_code # 0 THEN Returned(PyInt(ret_code), issued)
             ELSE LookupLevels(Tail(levels_), st, verify_, issued)

\* filesystem.py:80-118; the path is given as its levels
get_inode(path, st, verify_) == LookupLevels(path, st, verify_, <<>>)

\* filesystem.py:871-883
close_file(st, verify_, calls) ==
    LET c == ApiCall("Close", st)
    IN  IF verify_ /\ c.status # 0 THEN AssertionFailed(calls \o <<c>>)
        ELSE Returned(PyInt(c.status), calls \o <<c>>)

\* if verify: assert ret_code == 0; return the tuple
VerifiedReturn(verify_, ret_code, value, calls) ==
    IF verify_ /\ ret_code # 0 THEN AssertionFailed(calls)
    ELSE Returned(value, calls)

\* filesystem.py:885-924
open_file(path, st, verify_) ==
    LET file_inode == get_inode(path, st, TRUE)
    IN  IF file_inode.kind # "return" THEN file_inode
        ELSE LET parent_inode == get_inode(ParentOf(path), st, TRUE)
                 looked == file_inode.calls \o parent_inode.calls
                 c == ApiCall("Open", st)
             IN  IF parent_inode.kind # "return" THEN AssertionFailed(looked)
                 ELSE IF file_inode.value.type # "Inode"
                      THEN Returned(file_inode.value, looked)
                 ELSE VerifiedReturn(verify_, c.status,
                          PyTuple(<<PyInt(c.status), PyObj("None"), Attr, HandleOf(c)>>),
                          looked \o <<c>>)

\* filesystem.py:126-166
sync(by_handle, st, verify_) ==
    LET file_inode == get_inode(FilePath, st, FALSE)
        open == ApiCall("Open", st)
        c == ApiCall("Sync", st)
        opened == file_inode.calls \o <<open, c>>
        closed == close_file(st, TRUE, opened)
        value == PyTuple(<<PyInt(c.status), PyObj("None"), Attr>>)
    IN  IF by_handle THEN VerifiedReturn(verify_, c.status, value, <<c>>)
        ELSE IF file_inode.value.type # "Inode"
             THEN Returned(PyTuple(<<file_inode.value, PyObj("None"), PyObj("None")>>),
                           file_inode.calls)
        ELSE IF HandleOf(open).type = "None"
             THEN VerifiedReturn(verify_, c.status, value, opened)
        ELSE IF closed.kind # "return" THEN closed
        ELSE VerifiedReturn(verify_, c.status, value, closed.calls)

\* filesystem.py:249-278
open_dir(st, verify_) ==
    LET dir_inode == get_inode(DirPath, st, TRUE)
        c == ApiCall("Open", st)
    IN  IF dir_inode.kind # "return" THEN dir_inode
        ELSE VerifiedReturn(verify_, c.status,
                 PyTuple(<<PyInt(c.status), PyObj("None"), Attr, HandleOf(c)>>),
                 dir_inode.calls \o <<c>>)

\* filesystem.py:339-387: an AssertionError of get_inode is caught
mkdir(st, verify_) ==
    LET parent_inode == get_inode(DirPath, st, TRUE)
        c == ApiCall("MkDir", st)
    IN  IF parent_inode.kind # "return"
        THEN Returned(PyList(<<PyInt(-1), PyObj("str")>>), parent_inode.calls)
        ELSE VerifiedReturn(verify_, c.status,
                 PyTuple(<<PyInt(c.status), Attr, Attr, InodeOf(c)>>),
                 parent_inode.calls \o <<c>>)

\* filesystem.py:817-869; Read answers with the number of bytes read
read(length_, by_handle, st, verify_) ==
    LET file_inode == get_inode(FilePath, st, FALSE)
        opened == open_file(FilePath, st, TRUE)
        c == ApiCall("Read", st)
        value == PyTuple(<<PyInt(c.status), PyObj("None"), Attr, PyObj("bytes")>>)
        issued == file_inode.calls \o opened.calls \o <<c>>
        closed == close_file(st, TRUE, issued)
    IN  IF by_handle
        THEN IF verify_ /\ c.status # length_ THEN AssertionFailed(<<c>>)
             ELSE Returned(value, <<c>>)
        ELSE IF file_inode.value.type # "Inode"
             THEN Returned(file_inode.value, file_inode.calls)
        ELSE IF opened.kind # "return"
             THEN AssertionFailed(file_inode.calls \o opened.calls)
        ELSE IF closed.kind # "return" THEN closed
        ELSE IF verify_ /\ c.status # length_ THEN AssertionFailed(closed.calls)
        ELSE Returned(value, closed.calls)

\* filesystem.py:926-943
get_attr(st, verify_) ==
    LET file_inode == get_inode(FilePath, st, verify_)
        parent_inode == get_inode(ParentOf(FilePath), st, verify_)
        looked == file_inode.calls \o parent_inode.calls
        c == ApiCall("GetAttr", st)
    IN  IF file_inode.kind # "return" THEN file_inode
        ELSE IF parent_inode.kind # "return" THEN AssertionFailed(looked)
        ELSE IF file_inode.value.type # "Inode"
             THEN Returned(file_inode.value, looked)
        ELSE IF verify_
             THEN IF c.status # 0 THEN AssertionFailed(looked \o <<c>>)
                  ELSE Returned(PyTuple(<<PyObj("StatInfo"), PyObj("ExtraInfo")>>),
                                looked \o <<c>>)
        ELSE Returned(PyInt(c.status), looked \o <<c>>)

\* filesystem.py:439-503, with autoclose=True
create_file(st, verify_) ==
    LET folder_inode == get_inode(ParentOf(FilePath), st, verify_)
        c == ApiCall("Create", st)
        created == folder_inode.calls \o <<c>>
        closed == close_file(st, TRUE, created)
        value == PyTuple(<<PyInt(c.status), Attr, Attr, InodeOf(c), HandleOf(c)>>)
    IN  IF folder_inode.kind # "return" THEN folder_inode
        ELSE IF folder_inode.value.type # "Inode"
             THEN Returned(folder_inode.value, folder_inode.calls)
        ELSE IF HandleOf(c).type = "None"
             THEN VerifiedReturn(verify_, c.status, value, created)
        ELSE IF closed.kind # "return" THEN closed
        ELSE VerifiedReturn(verify_, c.status, value, closed.calls)

\* filesystem.py:505-531
create_stream(inode_, st, verify_) ==
    LET c == ApiCall("CreateStream", st)
    IN  IF inode_.type # "Inode" THEN Returned(PyObj("bool"), <<>>)
        ELSE VerifiedReturn(verify_, c.status,
                 PyTuple(<<PyInt(c.status), PyObj("None"), Attr, PyObj("int")>>),
                 <<c>>)

\* filesystem.py:996-1023: source and destination in the same directory
rename(st, verify_) ==
    LET src_parent_inode == get_inode(ParentOf(FilePath), st, TRUE)
        dst_parent_inode == get_inode(ParentOf(FilePath), st, TRUE)
        c == ApiCall("Rename", st)
    IN  IF src_parent_inode.kind # "return" THEN src_parent_inode
        ELSE IF dst_parent_inode.kind # "return"
             THEN AssertionFailed(src_parent_inode.calls \o dst_parent_inode.calls)
        ELSE VerifiedReturn(verify_, c.status,
                 PyTuple(<<PyInt(c.status), Attr, Attr, Attr>>),
                 src_parent_inode.calls \o dst_parent_inode.calls \o <<c>>)

\* filesystem.py:1112-1133
unlink(st, verify_) ==
    LET parent_inode == get_inode(ParentOf(FilePath), st, TRUE)
        c == ApiCall("Unlink", st)
    IN  IF parent_inode.kind # "return" THEN parent_inode
        ELSE IF parent_inode.value.type # "Inode"
             THEN Returned(PyTuple(<<parent_inode.value, PyObj("None"), PyObj("None")>>),
                           parent_inode.calls)
        ELSE VerifiedReturn(verify_, c.status,
                 PyTuple(<<PyInt(c.status), Attr, Attr>>),
                 parent_inode.calls \o <<c>>)

\* filesystem.py:721-757 and 781-815: write and write_v differ in the API
\* call they issue.  Without a handle_id the file is looked up; when it does
\* not exist it is created with create_file(file_path), i.e. verify=True and
\* autoclose=True, and the handle taken from the tuple it returns.
write_with(api, by_handle, st, verify_) ==
    LET file_inode == get_inode(FilePath, st, FALSE)
        created == create_file(st, TRUE)
        opened == open_file(FilePath, st, TRUE)
        c == ApiCall(api, st)
        value == PyTuple(<<PyInt(c.status), PyObj("None"), Attr>>)
        finish(calls) ==
            LET closed == close_file(st, TRUE, calls \o <<c>>)
            IN  IF closed.kind # "return" THEN closed
                ELSE VerifiedReturn(verify_, c.status, value, closed.calls)
    IN  IF by_handle THEN VerifiedReturn(verify_, c.status, value, <<c>>)
        ELSE IF file_inode.value.type # "Inode"
             THEN IF file_inode.value = PyInt(ENOENT)
                  THEN IF created.kind # "return"
                       THEN AssertionFailed(file_inode.calls \o created.calls)
                       ELSE finish(file_inode.calls \o created.calls)
                  ELSE Returned(file_inode.value, file_inode.calls)
        ELSE IF opened.kind # "return"
             THEN AssertionFailed(file_inode.calls \o opened.calls)
        ELSE finish(file_inode.calls \o opened.calls)

\* filesystem.py:699-757
write(by_handle, st, verify_) == write_with("Write", by_handle, st, verify_)

\* filesystem.py:759-815
write_v(by_handle, st, verify_) == write_with("WriteV", by_handle, st, verify_)

\* filesystem.py:168-208 and 210-247: hole_punch and find_sparse_region open
\* the file themselves, issue their API call, assert, and then close
punch_or_seek(api, st, verify_) ==
    LET file_inode == get_inode(FilePath, st, FALSE)
        open == ApiCall("Open", st)
        c == ApiCall(api, st)
        value == IF api = "HolePunch"
                 THEN PyTuple(<<PyInt(c.status), PyObj("None"), Attr>>)
                 ELSE PyTuple(<<PyInt(c.status), PyObj("int")>>)
        issued == file_inode.calls \o <<open, c>>
        closed == close_file(st, TRUE, issued)
    IN  IF file_inode.value.type # "Inode"
        THEN Returned(PyTuple(<<file_inode.value, PyObj("None"), PyObj("None")>>),
                      file_inode.calls)
        ELSE IF verify_ /\ c.status # 0 THEN AssertionFailed(issued)
        ELSE IF closed.kind # "return" THEN closed
        ELSE Returned(value, closed.calls)

\* filesystem.py:168-208
hole_punch(st, verify_) == punch_or_seek("HolePunch", st, verify_)

\* filesystem.py:210-247
find_sparse_region(st, verify_) == punch_or_seek("FindSparseRegion", st, verify_)

\* filesystem.py:389-401
close_dir(st, verify_, calls) == close_file(st, verify_, calls)

\* filesystem.py:403-437; open_dir is called with verify=False
read_dir_entries(st) ==
    LET opened == open_dir(st, FALSE)
        dir_handle == opened.value.items[4]
        c == ApiCall("ReadDirEntries", st)
        failed == PyTuple(<<PyInt(c.status), PyObj("None"), PyObj("None"), PyObj("dict")>>)
        closed == close_dir(st, TRUE, opened.calls \o <<c>>)
    IN  IF opened.kind # "return" THEN opened
        ELSE IF dir_handle.type # "Handle"
             THEN Returned(PyTuple(<<opened.value.items[1], PyObj("None"),
                                     PyObj("None"), PyObj("dict")>>), opened.calls)
        ELSE IF closed.kind # "return" THEN closed
        ELSE IF c.status # 0 THEN Returned(failed, closed.calls)
        ELSE Returned(PyTuple(<<PyInt(c.status), PyObj("None"), Attr, PyObj("dict")>>),
                      closed.calls)

\* the truth value of an argument: None, 0 and the empty string are false
PyStr(n) == [type |-> "str", val |-> n, items |-> <<>>]
PyTruthy(v) ==
    CASE v.type = "None" -> FALSE
      [] v.type \in {"int", "str"} -> v.val # 0
      [] OTHER -> TRUE

\* filesystem.py:533-578
open_stream(inode_, name_, stream_id_, st, verify_) ==
    LET by_id == ApiCall("OpenStreamById", st)
        by_name == ApiCall("OpenStreamByName", st)
        ended(c, id) ==
            VerifiedReturn(verify_, c.status,
                PyTuple(<<PyInt(c.status), PyObj("None"), Attr, id, HandleOf(c)>>),
                <<c>>)
    IN  IF inode_.type # "Inode" THEN Returned(PyObj("bool"), <<>>)
        ELSE IF PyTruthy(stream_id_) /\ PyTruthy(name_) THEN AssertionFailed(<<>>)
        ELSE IF ~PyTruthy(name_)
             THEN IF ~PyTruthy(stream_id_) THEN AssertionFailed(<<>>)
                  ELSE ended(by_id, stream_id_)
        ELSE ended(by_name, PyObj("int"))

(***************************************************************************)
(* One call of a FileSystem wrapper operation                              *)
(***************************************************************************)
WrapperOps ==
    {"sync", "open_dir", "mkdir", "read", "get_attr", "create_file",
     "create_stream", "rename", "unlink", "write", "write_v", "hole_punch",
     "find_sparse_region", "read_dir_entries", "open_stream"}

ApiNames ==
    {"Lookup:dir", "Lookup:f", "Open", "Close", "Sync", "MkDir", "Read",
     "GetAttr", "Create", "CreateStream", "Rename", "Unlink", "Write",
     "WriteV", "HolePunch", "FindSparseRegion", "ReadDirEntries",
     "OpenStreamById", "OpenStreamByName"}

\* the API calls an operation can issue
UsedCalls(op, by_handle) ==
    CASE op = "sync" -> IF by_handle THEN {"Sync"}
                        ELSE {"Lookup:dir", "Lookup:f", "Open", "Sync", "Close"}
      [] op = "read" -> IF by_handle THEN {"Read"}
                        ELSE {"Lookup:dir", "Lookup:f", "Open", "Read", "Close"}
      [] op = "open_dir" -> {"Lookup:dir", "Open"}
      [] op = "mkdir" -> {"Lookup:dir", "MkDir"}
      [] op = "get_attr" -> {"Lookup:dir", "Lookup:f", "GetAttr"}
      [] op = "create_file" -> {"Lookup:dir", "Create", "Close"}
      [] op = "create_stream" -> {"CreateStream"}
      [] op = "rename" -> {"Lookup:dir", "Rename"}
      [] op = "unlink" -> {"Lookup:dir", "Unlink"}
      [] op = "write" -> IF by_handle THEN {"Write"}
                         ELSE {"Lookup:dir", "Lookup:f", "Open", "Create", "Write", "Close"}
      [] op = "write_v" -> IF by_handle THEN {"WriteV"}
                           ELSE {"Lookup:dir", "Lookup:f", "Open", "Create", "WriteV", "Close"}
      [] op = "hole_punch" -> {"Lookup:dir", "Lookup:f", "Open", "HolePunch", "Close"}
      [] op = "find_sparse_region" ->
            {"Lookup:dir", "Lookup:f", "Open", "FindSparseRegion", "Close"}
      [] op = "read_dir_entries" -> {"Lookup:dir", "Open", "ReadDirEntries", "Close"}
      [] op = "open_stream" -> {"OpenStreamById", "OpenStreamByName"}

\* the backends: a status up to MaxStatus for each call the operation can
\* issue (Read: a number of bytes)
Backends(used) ==
    {[n \in ApiNames |-> IF n \in used THEN f[n] ELSE 0] :
        f \in [used -> 0..MaxStatus]}

\* the name and the stream_id a test gives to open_stream: None when it is
\* not given, else a string of 0..MaxName characters, a number 0..MaxStreamId
StreamNames == {PyObj("None")} \cup {PyStr(n) : n \in 0..MaxName}
StreamIds == {PyObj("None")} \cup {PyInt(n) : n \in 0..MaxStreamId}

fsPending == [kind |-> "pending", value |-> PyObj("None"), calls |-> <<>>]

fsInit ==
    /\ wrapper_op \in WrapperOps
    /\ verify \in BOOLEAN
    /\ handle_id \in IF wrapper_op \in {"sync", "read", "write", "write_v"}
                     THEN {PyObj("None"), PyObj("Handle")} ELSE {PyObj("None")}
    /\ inode \in IF wrapper_op \in {"create_stream", "open_stream"}
                 THEN {PyObj("Inode"), PyInt(ENOENT)} ELSE {PyObj("None")}
    /\ name \in IF wrapper_op = "open_stream" THEN StreamNames ELSE {PyObj("None")}
    /\ stream_id \in IF wrapper_op = "open_stream" THEN StreamIds ELSE {PyObj("None")}
    /\ length \in IF wrapper_op = "read" THEN 0..MaxLength ELSE {0}
    /\ api_status \in Backends(UsedCalls(wrapper_op, handle_id.type = "Handle"))
    /\ fs_result = fsPending

fsIdle ==
    /\ wrapper_op = PyNone
    /\ verify = TRUE
    /\ handle_id = PyObj("None")
    /\ inode = PyObj("None")
    /\ name = PyObj("None")
    /\ stream_id = PyObj("None")
    /\ length = 0
    /\ api_status = [n \in ApiNames |-> 0]
    /\ fs_result = [kind |-> "unused", value |-> PyObj("None"), calls |-> <<>>]

\* the call of the operation named op ends with result
WrapperCall(op, result) ==
    /\ wrapper_op = op
    /\ fs_result.kind = "pending"
    /\ fs_result' = result
    /\ UNCHANGED <<wrapper_op, verify, handle_id, inode, name, stream_id, length,
                   api_status>>
    /\ UNCHANGED <<vrffVars, cfiVars, caaVars, cofaVars, rbwVars, ehcVars, giVars, ftrVars>>

Sync == WrapperCall("sync", sync(handle_id.type = "Handle", api_status, verify))
OpenDir == WrapperCall("open_dir", open_dir(api_status, verify))
MkDir == WrapperCall("mkdir", mkdir(api_status, verify))
Read == WrapperCall("read", read(length, handle_id.type = "Handle", api_status, verify))
GetAttr == WrapperCall("get_attr", get_attr(api_status, verify))
CreateFile == WrapperCall("create_file", create_file(api_status, verify))
CreateStream == WrapperCall("create_stream", create_stream(inode, api_status, verify))
Rename == WrapperCall("rename", rename(api_status, verify))
Unlink == WrapperCall("unlink", unlink(api_status, verify))
Write == WrapperCall("write", write(handle_id.type = "Handle", api_status, verify))
WriteV == WrapperCall("write_v", write_v(handle_id.type = "Handle", api_status, verify))
HolePunch == WrapperCall("hole_punch", hole_punch(api_status, verify))
FindSparseRegion == WrapperCall("find_sparse_region", find_sparse_region(api_status, verify))
ReadDirEntries == WrapperCall("read_dir_entries", read_dir_entries(api_status))
OpenStream == WrapperCall("open_stream", open_stream(inode, name, stream_id, api_status, verify))

(***************************************************************************)
(* utils.py: run_bash_w_live_output and log_to_stdout                      *)
(* The main thread starts the log-tailing thread, runs the command in a    *)
(* subprocess and polls it; the command is the environment: while it runs  *)
(* it appends lines to the log file (creating the file when it does not    *)
(* exist), and it exits with some code.  The log file is the number of     *)
(* lines it holds; line k of the file is the number k.  Each action is one *)
(* statement of one thread, so the threads interleave at every statement.  *)
(***************************************************************************)
\* a local that holds None is the empty tuple, one that holds the value v is
\* the tuple of v
NoValue == <<>>
Value(v) == <<v>>

\* mutant: the log-tailing thread takes the event as set for ever
is_set_always(event) == TRUE

\* threading.Event.is_set()
is_set(event) == event

\* mutant: join does not wait for the thread
is_alive_ignored(tail_pc_) == FALSE

\* Thread.join() waits while the thread is alive: until log_to_stdout has
\* returned or raised
is_alive(tail_pc_) == tail_pc_ \notin {"finished", "raised"}

\* utils.py:798: return returncode == 0
Succeeded(returncode_) == IF returncode_ = Value(0) THEN PyTrue ELSE PyFalse

NoProcess == [state |-> "none", code |-> 0]

rbwInit ==
    /\ main_pc = "set"
    /\ tail_pc = "not_started"
    /\ log_output_run = FALSE
    /\ pro = NoProcess
    /\ log_file \in {[exists |-> e, lines |-> 0] : e \in BOOLEAN}
    /\ returncode = NoValue
    /\ debug_log = NoValue
    /\ line = 0
    /\ logged = <<>>
    /\ rbw_result = "pending"

rbwIdle ==
    /\ main_pc = "idle"
    /\ tail_pc = "idle"
    /\ log_output_run = FALSE
    /\ pro = NoProcess
    /\ log_file = [exists |-> FALSE, lines |-> 0]
    /\ returncode = NoValue
    /\ debug_log = NoValue
    /\ line = 0
    /\ logged = <<>>
    /\ rbw_result = "unused"

\* a statement of the main thread
MainStep(from, to) ==
    /\ main_pc = from
    /\ main_pc' = to
    /\ UNCHANGED tailLocals
    /\ UNCHANGED <<vrffVars, cfiVars, caaVars, cofaVars, fsVars, ehcVars, giVars, ftrVars>>

\* a statement of the log-tailing thread
TailStep(from, to) ==
    /\ tail_pc = from
    /\ tail_pc' = to
    /\ UNCHANGED <<mainVars, log_output_run, pro, log_file>>
    /\ UNCHANGED <<vrffVars, cfiVars, caaVars, cofaVars, fsVars, ehcVars, giVars, ftrVars>>

\* utils.py:787-788: log_output_run = threading.Event(); log_output_run.set()
SetEvent ==
    /\ MainStep("set", "start")
    /\ log_output_run' = TRUE
    /\ UNCHANGED <<returncode, rbw_result, pro, log_file>>

\* utils.py:789-790: log_output_thread.start()
StartThread ==
    /\ main_pc = "start"
    /\ main_pc' = "popen"
    /\ tail_pc' = "open"
    /\ UNCHANGED <<returncode, rbw_result, debug_log, line, logged,
                   log_output_run, pro, log_file>>
    /\ UNCHANGED <<vrffVars, cfiVars, caaVars, cofaVars, fsVars, ehcVars, giVars, ftrVars>>

\* utils.py:791-792: subprocess.Popen(cmd, ...); returncode = None
Popen ==
    /\ MainStep("popen", "poll")
    /\ pro' = [state |-> "running", code |-> 0]
    /\ returncode' = NoValue
    /\ UNCHANGED <<rbw_result, log_output_run, log_file>>

\* utils.py:794: returncode = pro.poll()
Poll ==
    /\ MainStep("poll", "sleep")
    /\ returncode' = IF pro.state = "exited" THEN Value(pro.code) ELSE NoValue
    /\ UNCHANGED <<rbw_result, log_output_run, pro, log_file>>

\* utils.py:795, 793: time.sleep(5); while returncode is None
SleepMain ==
    /\ MainStep("sleep", IF returncode = NoValue THEN "poll" ELSE "clear")
    /\ UNCHANGED <<returncode, rbw_result, log_output_run, pro, log_file>>

\* utils.py:796: log_output_run.clear()
ClearEvent ==
    /\ MainStep("clear", "join")
    /\ log_output_run' = FALSE
    /\ UNCHANGED <<returncode, rbw_result, pro, log_file>>

\* utils.py:797: log_output_thread.join()
Join ==
    /\ ~is_alive(tail_pc)
    /\ MainStep("join", "return")
    /\ UNCHANGED <<returncode, rbw_result, log_output_run, pro, log_file>>

\* utils.py:798: return returncode == 0
Return ==
    /\ MainStep("return", "returned")
    /\ rbw_result' = Succeeded(returncode)
    /\ UNCHANGED <<returncode, log_output_run, pro, log_file>>

\* utils.py:805: open(log_file, "r") raises FileNotFoundError when the file
\* does not exist
OpenLog ==
    /\ TailStep("open", IF log_file.exists THEN "is_set" ELSE "raised")
    /\ debug_log' = IF log_file.exists THEN Value(0) ELSE NoValue
    /\ UNCHANGED <<line, logged>>

\* utils.py:806: while log_output_run.is_set()
TestEvent ==
    /\ TailStep("is_set", IF is_set(log_output_run) THEN "readline" ELSE "finished")
    /\ UNCHANGED <<debug_log, line, logged>>

\* utils.py:807-808: line = debug_log.readline(); if not line
ReadLine ==
    /\ tail_pc = "readline"
    /\ IF debug_log[1] < log_file.lines
       THEN /\ line' = debug_log[1] + 1
            /\ debug_log' = Value(debug_log[1] + 1)
            /\ TailStep("readline", "log")
       ELSE /\ line' = 0
            /\ UNCHANGED debug_log
            /\ TailStep("readline", "sleep")
    /\ UNCHANGED logged

\* utils.py:809-810: time.sleep(0.1); continue
SleepTail ==
    /\ TailStep("sleep", "is_set")
    /\ UNCHANGED <<debug_log, line, logged>>

\* utils.py:811: log.info(line.strip())
LogLine ==
    /\ TailStep("log", "is_set")
    /\ logged' = Append(logged, line)
    /\ UNCHANGED <<debug_log, line>>

\* the environment: a step of the command
CmdStep ==
    /\ pro.state = "running"
    /\ UNCHANGED <<mainVars, tailLocals, log_output_run>>
    /\ UNCHANGED <<vrffVars, cfiVars, caaVars, cofaVars, fsVars, ehcVars, giVars, ftrVars>>

\* the command appends a line to the log file
CmdWrite ==
    /\ CmdStep
    /\ log_file.lines < MaxLines
    /\ log_file' = [exists |-> TRUE, lines |-> log_file.lines + 1]
    /\ UNCHANGED pro

\* the command exits
CmdExit ==
    /\ CmdStep
    /\ \E code \in 0..MaxReturncode : pro' = [state |-> "exited", code |-> code]
    /\ UNCHANGED log_file

MainThread ==
    SetEvent \/ StartThread \/ Popen \/ Poll \/ SleepMain \/ ClearEvent \/ Join \/ Return

TailThread == OpenLog \/ TestEvent \/ ReadLine \/ SleepTail \/ LogLine

(***************************************************************************)
(* static.py: AccessModes and existing_handlers_check                      *)
(* existing_handlers is the list of the values of the dict: a handler is   *)
(* the record of its handle (val[0]), access mode (val[1]) and share mode  *)
(* (val[2]).                                                               *)
(***************************************************************************)
READ == 1
WRITE == 2
DELETE == 4
UNLINK == 16

\* static.py:193: sh_cum = 7
SH_CUM_START == 7

\* static.py:194-196: for am in existing_handlers.values():
\*                        am_cum |= am[1]; sh_cum &= am[2]
RECURSIVE Cumulate(_, _, _)
Cumulate(handlers, am_cum, sh_cum) ==
    IF handlers = <<>> THEN [am_cum |-> am_cum, sh_cum |-> sh_cum]
    ELSE Cumulate(Tail(handlers),
                  BitOr(am_cum, Head(handlers).access_mode),
                  BitAnd(sh_cum, Head(handlers).share_mode))

\* static.py:183-213
existing_handlers_check(existing_handlers_, input_access_mode_, input_share_mode_) ==
    IF Len(existing_handlers_) = 0 THEN PyTrue
    ELSE LET cum == Cumulate(existing_handlers_, 0, SH_CUM_START)
         IN  IF BitAnd(input_access_mode_, cum.sh_cum) # input_access_mode_
             THEN PyFalse
             ELSE IF BitAnd(input_share_mode_, cum.am_cum) # cum.am_cum
                  THEN PyFalse
                  ELSE PyTrue

ModeBits == {READ, WRITE, DELETE, UNLINK}

\* the mode with the bits of B set
RECURSIVE ModeOf(_)
ModeOf(B) ==
    IF B = {} THEN 0
    ELSE LET b == CHOOSE b \in B : TRUE IN b + ModeOf(B \ {b})

\* the modes built from READ, WRITE, DELETE and UNLINK
Modes == {ModeOf(B) : B \in SUBSET ModeBits}

\* the modes of an open handler: at most MaxHandlerBits bits each
HandlerModes == {ModeOf(B) : B \in SubsetsUpTo(ModeBits, MaxHandlerBits)}

Handlers ==
    {[handle |-> "handle", access_mode |-> a, share_mode |-> sh] :
        a \in HandlerModes, sh \in HandlerModes}

ehcInit ==
    /\ existing_handlers \in SeqsUpTo(Handlers, MaxHandlers)
    /\ input_access_mode \in Modes
    /\ input_share_mode \in Modes
    /\ ehc_result = "pending"

ehcIdle ==
    /\ existing_handlers = <<>>
    /\ input_access_mode = 0
    /\ input_share_mode = 0
    /\ ehc_result = "unused"

ExistingHandlersCheck ==
    /\ ehc_result = "pending"
    /\ ehc_result' = existing_handlers_check(existing_handlers, input_access_mode,
                                             input_share_mode)
    /\ UNCHANGED <<existing_handlers, input_access_mode, input_share_mode>>
    /\ UNCHANGED <<vrffVars, cfiVars, caaVars, cofaVars, fsVars, rbwVars, giVars, ftrVars>>

(***************************************************************************)
(* filesystem.py: FileSystem.get_inode, statement by statement             *)
(* A path is the sequence of its characters.  An inode is the sequence of  *)
(* the names looked up from the root to reach it; the root inode is the    *)
(* empty sequence.  The backend answers each Lookup with a status, and     *)
(* with the inode of the name under the parent when the status is 0.       *)
(* gi_calls is the history of the Lookup calls the method has issued.      *)
(***************************************************************************)
SEP == "/"
PathChars == {SEP, "a", "b"}
Paths == SeqsUpTo(PathChars, MaxPathLen)

\* str.startswith("/")
StartsWithSep(p) == p # <<>> /\ p[1] = SEP

\* str.rfind("/") + 1: the position of the last "/", 0 when there is none
RECURSIVE RFindSep(_)
RFindSep(p) ==
    IF p = <<>> THEN 0
    ELSE IF p[Len(p)] = SEP THEN Len(p)
    ELSE RFindSep(SubSeq(p, 1, Len(p) - 1))

\* str.rstrip("/")
RECURSIVE RStripSep(_)
RStripSep(p) ==
    IF p # <<>> /\ p[Len(p)] = SEP THEN RStripSep(SubSeq(p, 1, Len(p) - 1))
    ELSE p

\* head != sep * len(head)
AllSeps(p) == \A k \in 1..Len(p) : p[k] = SEP

\* posixpath.split: (head, tail), where tail is everything after the last
\* "/" and head everything before it, without its trailing slashes unless it
\* consists of slashes only
os_path_split(p) ==
    LET i == RFindSep(p)
        head == SubSeq(p, 1, i)
        tail == SubSeq(p, i + 1, Len(p))
    IN  <<IF head # <<>> /\ ~AllSeps(head) THEN RStripSep(head) ELSE head, tail>>

\* parent.split("/")[-1]
LastSegment(p) == SubSeq(p, RFindSep(p) + 1, Len(p))

\* levels.insert(0, x); the mutant appends
InsertFirst_appends(list, x) == list \o <<x>>

InsertFirst(list, x) == <<x>> \o list

\* the inodes and what get_inode ends with
RootInode == <<>>
NoInode == << <<"None">> >>
LookupCall(name_, parent_inode, st) ==
    [name |-> name_, parent |-> parent_inode, status |-> st,
     inode |-> IF st = 0 THEN Append(parent_inode, name_) ELSE NoInode]

giPending == [kind |-> "pending", type |-> "None", inode |-> NoInode, status |-> 0]
giReturnsInode(i) == [kind |-> "return", type |-> "Inode", inode |-> i, status |-> 0]
giReturnsTuple(i) == [kind |-> "return", type |-> "tuple", inode |-> i, status |-> 0]
giReturnsStatus(st) == [kind |-> "return", type |-> "int", inode |-> NoInode, status |-> st]
giAsserts == [kind |-> "AssertionError", type |-> "None", inode |-> NoInode, status |-> 0]

giInit ==
    /\ file_path \in Paths
    /\ gi_verify \in BOOLEAN
    /\ return_attrs \in BOOLEAN
    /\ levels = <<>>
    /\ gi_parent = <<>>
    /\ root_inode = RootInode
    /\ level_index = 0
    /\ gi_pc = "split"
    /\ gi_calls = <<>>
    /\ gi_result = giPending

giIdle ==
    /\ file_path = <<>>
    /\ gi_verify = TRUE
    /\ return_attrs = FALSE
    /\ levels = <<>>
    /\ gi_parent = <<>>
    /\ root_inode = RootInode
    /\ level_index = 0
    /\ gi_pc = "idle"
    /\ gi_calls = <<>>
    /\ gi_result = [giPending EXCEPT !.kind = "unused"]

\* filesystem.py:91-96: prefix the "/", split off the last component
SplitPath ==
    /\ gi_pc = "split"
    /\ LET p == IF StartsWithSep(file_path) THEN file_path ELSE <<SEP>> \o file_path
           s == os_path_split(p)
       IN  /\ file_path' = p
           /\ gi_parent' = s[1]
           /\ levels' = IF s[2] # <<>> THEN InsertFirst(<<>>, s[2]) ELSE <<>>
    /\ gi_pc' = "while"
    /\ UNCHANGED <<gi_verify, return_attrs, root_inode, level_index, gi_calls, gi_result>>
    /\ UNCHANGED <<vrffVars, cfiVars, caaVars, cofaVars, fsVars, rbwVars, ehcVars, ftrVars>>

\* filesystem.py:97-99: one pass of the while loop.  levels grows without
\* bound when the loop does not end; no path of the model has MaxPathLen
\* components, so the bound stops only a loop that makes no progress.
WhileStep ==
    /\ gi_pc = "while"
    /\ gi_parent # <<SEP>>
    /\ Len(levels) < MaxPathLen
    /\ levels' = InsertFirst(levels, LastSegment(gi_parent))
    /\ gi_parent' = os_path_split(gi_parent)[1]
    /\ UNCHANGED <<file_path, gi_verify, return_attrs, root_inode, level_index,
                   gi_pc, gi_calls, gi_result>>
    /\ UNCHANGED <<vrffVars, cfiVars, caaVars, cofaVars, fsVars, rbwVars, ehcVars, ftrVars>>

\* filesystem.py:97, 101-105: the loop ends; no levels: return self.root_inode
WhileExit ==
    /\ gi_pc = "while"
    /\ gi_parent = <<SEP>>
    /\ IF Len(levels) = 0
       THEN /\ gi_result' = giReturnsInode(RootInode)
            /\ gi_pc' = "done"
            /\ UNCHANGED level_index
       ELSE /\ level_index' = 1
            /\ gi_pc' = "for"
            /\ UNCHANGED gi_result
    /\ UNCHANGED <<file_path, gi_verify, return_attrs, levels, gi_parent,
                   root_inode, gi_calls>>
    /\ UNCHANGED <<vrffVars, cfiVars, caaVars, cofaVars, fsVars, rbwVars, ehcVars, ftrVars>>

\* filesystem.py:106-113: one pass of the for loop: lookup the level under
\* root_inode; the backend answers with a status
ForLookup ==
    /\ gi_pc = "for"
    /\ level_index <= Len(levels)
    /\ \E st \in 0..MaxStatus :
          LET c == LookupCall(levels[level_index], root_inode, st)
          IN  /\ gi_calls' = Append(gi_calls, c)
              /\ root_inode' = c.inode
              /\ IF gi_verify /\ st # 0
                 THEN gi_result' = giAsserts /\ gi_pc' = "done"
                 ELSE IF st # 0
                      THEN gi_result' = giReturnsStatus(st) /\ gi_pc' = "done"
                      ELSE UNCHANGED <<gi_result, gi_pc>>
    /\ level_index' = level_index + 1
    /\ UNCHANGED <<file_path, gi_verify, return_attrs, levels, gi_parent>>
    /\ UNCHANGED <<vrffVars, cfiVars, caaVars, cofaVars, fsVars, rbwVars, ehcVars, ftrVars>>

\* filesystem.py:114-118: the for loop is exhausted
ForExit ==
    /\ gi_pc = "for"
    /\ level_index > Len(levels)
    /\ gi_result' = IF return_attrs THEN giReturnsTuple(root_inode)
                    ELSE giReturnsInode(root_inode)
    /\ gi_pc' = "done"
    /\ UNCHANGED <<file_path, gi_verify, return_attrs, levels, gi_parent,
                   root_inode, level_index, gi_calls>>
    /\ UNCHANGED <<vrffVars, cfiVars, caaVars, cofaVars, fsVars, rbwVars, ehcVars, ftrVars>>

(***************************************************************************)
(* static.py: two calls of OpRequirements.fields_to_reqs                   *)
(***************************************************************************)
\* the lists of field names a caller gives: keys of FIELD_FLAG_DICT and a
\* stat field that is no key
FieldNames == Elems(FIELD_FLAG_KEYS) \cup {"length"}
FieldLists == SeqsUpTo(FieldNames, MaxFields)

ftrPending == [reqs |-> 0, raised |-> "pending"]

ftrInit ==
    /\ fields1 \in FieldLists
    /\ fields2 \in FieldLists
    /\ reqs1 = ftrPending
    /\ reqs2 = ftrPending

ftrIdle ==
    /\ fields1 = <<>>
    /\ fields2 = <<>>
    /\ reqs1 = [reqs |-> 0, raised |-> "unused"]
    /\ reqs2 = [reqs |-> 0, raised |-> "unused"]

\* static.py:244-249, called for each of the two lists
FieldsToReqs ==
    /\ reqs1 = ftrPending
    /\ reqs1' = fields_to_reqs(fields1)
    /\ reqs2' = fields_to_reqs(fields2)
    /\ UNCHANGED <<fields1, fields2>>
    /\ UNCHANGED <<vrffVars, cfiVars, caaVars, cofaVars, fsVars, rbwVars, ehcVars, giVars>>

(***************************************************************************)
(* Specifications                                                          *)
(***************************************************************************)
InitFlag == vrffInit /\ cfiIdle /\ caaIdle /\ cofaIdle /\ fsIdle /\ rbwIdle /\ ehcIdle /\ giIdle /\ ftrIdle
NextFlag == VerifyReturnedFlagField
SpecFlag == InitFlag /\ [][NextFlag]_vars

InitCompare == cfiInit /\ vrffIdle /\ caaIdle /\ cofaIdle /\ fsIdle /\ rbwIdle /\ ehcIdle /\ giIdle /\ ftrIdle
NextCompare == CompareFileInfo
SpecCompare == InitCompare /\ [][NextCompare]_vars

InitCompareAll == caaInit /\ vrffIdle /\ cfiIdle /\ cofaIdle /\ fsIdle /\ rbwIdle /\ ehcIdle /\ giIdle /\ ftrIdle
NextCompareAll == CompareAllAttributes
SpecCompareAll == InitCompareAll /\ [][NextCompareAll]_vars

InitOracle ==
    /\ cofaInit /\ fs_type \in FsTypes /\ caaArgsIdle
    /\ vrffIdle /\ cfiIdle /\ fsIdle /\ rbwIdle /\ ehcIdle /\ giIdle /\ ftrIdle
NextOracle ==
    \/ GetAttrBefore
    \/ CheckSpecialBefore
    \/ CallOperation
    \/ RecordCurrentTime
    \/ GetAttrAfter
    \/ CheckFlags
    \/ PopRequested
    \/ CheckReturnedValues
    \/ CompareParent
    \/ CompareTarget
SpecOracle == InitOracle /\ [][NextOracle]_vars

InitFs == fsInit /\ vrffIdle /\ cfiIdle /\ caaIdle /\ cofaIdle /\ rbwIdle /\ ehcIdle /\ giIdle /\ ftrIdle
NextFs ==
    \/ Sync
    \/ OpenDir
    \/ MkDir
    \/ Read
    \/ GetAttr
    \/ CreateFile
    \/ CreateStream
    \/ Rename
    \/ Unlink
    \/ Write
    \/ WriteV
    \/ HolePunch
    \/ FindSparseRegion
    \/ ReadDirEntries
    \/ OpenStream
SpecFs == InitFs /\ [][NextFs]_vars

InitTail == rbwInit /\ vrffIdle /\ cfiIdle /\ caaIdle /\ cofaIdle /\ fsIdle /\ ehcIdle /\ giIdle /\ ftrIdle
NextTail ==
    \/ SetEvent
    \/ StartThread
    \/ Popen
    \/ Poll
    \/ SleepMain
    \/ ClearEvent
    \/ Join
    \/ Return
    \/ OpenLog
    \/ TestEvent
    \/ ReadLine
    \/ SleepTail
    \/ LogLine
    \/ CmdWrite
    \/ CmdExit
SpecTail == InitTail /\ [][NextTail]_vars
\* the two threads are scheduled fairly; the command is not obliged to exit
SpecTailLive == SpecTail /\ WF_vars(MainThread) /\ WF_vars(TailThread)

InitHandlers ==
    ehcInit /\ vrffIdle /\ cfiIdle /\ caaIdle /\ cofaIdle /\ fsIdle /\ rbwIdle /\ giIdle /\ ftrIdle
NextHandlers == ExistingHandlersCheck
SpecHandlers == InitHandlers /\ [][NextHandlers]_vars

InitInode ==
    giInit /\ vrffIdle /\ cfiIdle /\ caaIdle /\ cofaIdle /\ fsIdle /\ rbwIdle /\ ehcIdle /\ ftrIdle
NextInode ==
    \/ SplitPath
    \/ WhileStep
    \/ WhileExit
    \/ ForLookup
    \/ ForExit
SpecInode == InitInode /\ [][NextInode]_vars
\* the method runs in one thread that is not held up
SpecInodeLive == SpecInode /\ WF_vars(NextInode)

InitReqs ==
    /\ ftrInit /\ vrffIdle /\ cfiIdle /\ caaIdle /\ cofaIdle /\ fsIdle /\ rbwIdle
    /\ ehcIdle /\ giIdle
NextReqs == FieldsToReqs
SpecReqs == InitReqs /\ [][NextReqs]_vars

(***************************************************************************)
(* Claims                                                                  *)
(***************************************************************************)
\* the requested toggles as the sum of their (distinct) bits
RequestedBits(pre_, stat_post_, extra_post_) ==
    (IF pre_ = PyTrue THEN 1 ELSE 0)
    + (IF stat_post_ = PyTrue THEN 2 ELSE 0)
    + (IF extra_post_ = PyTrue THEN 4 ELSE 0)

\* C1: verify_returned_flag_field returns True exactly when flag is the OR of
\* PRE_OP (1) if pre, STAT_POST_OP (2) if stat_post and EXTRA_POST_OP (4) if
\* extra_post, for every flag and toggle combination; otherwise it returns None.
C1_FlagMatchesToggles ==
    vrff_result # "pending" =>
        /\ vrff_result \in {PyTrue, PyNone}
        /\ vrff_result = PyTrue <=> flag = RequestedBits(pre, stat_post, extra_post)

\* a call with pre and extra_post set that accepted flag 5
C1_Witness ==
    /\ vrff_result = PyTrue
    /\ flag = 5
    /\ pre = PyTrue /\ stat_post # PyTrue /\ extra_post = PyTrue

\* the list the claim speaks of, before the exceptions are taken out
C2_BaseList ==
    IF only_these # <<>> THEN only_these
    ELSE IF f_info1.class = "StatInfo" THEN STAT_INFO_ATTRS ELSE EXTRA_INFO_ATTRS

C2_IsChecked(i) == C2_BaseList[i] \notin Elems(exceptions)

C2_Differs(i) == f_info1.attrs[C2_BaseList[i]] # f_info2.attrs[C2_BaseList[i]]

\* C2: compare_file_info returns True exactly when every checked field
\* (only_these if non-empty, else the list of the category, minus exceptions)
\* is equal in the two objects; otherwise it returns None and reports the
\* first mismatching checked field in list order.
C2_CompareFileInfo ==
    cfi_result.ret # "pending" =>
        /\ cfi_result.raised = PyNone
        /\ cfi_result.ret \in {PyTrue, PyNone}
        /\ cfi_result.ret = PyTrue <=>
                \A i \in 1..Len(C2_BaseList) : C2_IsChecked(i) => ~C2_Differs(i)
        /\ cfi_result.ret = PyNone =>
                \E i \in 1..Len(C2_BaseList) :
                    /\ C2_IsChecked(i) /\ C2_Differs(i)
                    /\ cfi_result.logged = C2_BaseList[i]
                    /\ \A j \in 1..(i - 1) : C2_IsChecked(j) => ~C2_Differs(j)

\* a call with only_these and exceptions given, two mismatching fields in
\* only_these, the first of them excepted and the second reported
C2_Witness ==
    /\ cfi_result.ret = PyNone
    /\ Len(only_these) = 2 /\ Len(exceptions) = 1
    /\ only_these[1] = exceptions[1]
    /\ C2_Differs(1) /\ C2_Differs(2)
    /\ cfi_result.logged = only_these[2]

\* the value of field f in a snapshot
FieldOf(snapshot, f) ==
    IF f \in DOMAIN snapshot[1].attrs THEN snapshot[1].attrs[f]
    ELSE snapshot[2].attrs[f]

AllFields == Elems(STAT_INFO_ATTRS) \cup Elems(EXTRA_INFO_ATTRS)

\* the fields compare_all_attributes was told to leave out, and the field the
\* backend always updates
C3_Excepted(f) ==
    \/ f \in Elems(extra_exceptions.stat) \cup Elems(extra_exceptions.extra)
    \/ fs_type = "sofs" /\ f = "metadata_modified_time"

\* C3: compare_all_attributes completes without an assertion failure only if
\* every stat or extra field that is neither requested nor on the exception
\* list has the same value in the before- and the after-snapshot.
C3_UnrequestedUnchanged ==
    caa_result.kind = "pass" /\ f_info_out # <<>> =>
        \A f \in AllFields :
            f \notin Elems(req) /\ ~C3_Excepted(f) =>
                FieldOf(f_info_in, f) = FieldOf(f_info_out, f)

\* a passing call on gfs in which a requested timestamp and an excepted field
\* changed and nothing else did
C3_Witness ==
    /\ caa_result.kind = "pass"
    /\ f_info_out # <<>>
    /\ fs_type = "gfs"
    /\ req = <<"accessed_time">>
    /\ extra_exceptions.stat = <<"length">>
    /\ FieldOf(f_info_in, "accessed_time") # FieldOf(f_info_out, "accessed_time")
    /\ FieldOf(f_info_in, "length") # FieldOf(f_info_out, "length")

C5_Age(f) == TimeDelta(current_time, filetime_to_dt(FieldOf(f_info_out, f)))

\* C5: for every requested timestamp field whose recency is asserted,
\* compare_all_attributes passes only if 0 <= current_time - new value < 1 s:
\* a value a whole number of days (plus less than a second) before
\* current_time, and any value after current_time, is rejected.
C5_UpdatedWithinOneSecond ==
    caa_result.kind = "pass" /\ f_info_out # <<>> =>
        \A f \in Elems(req) \cap TimeFields :
            ~(fs_type \in {"fsapi", "sofs"} /\ f = "metadata_modified_time") =>
                C5_Age(f).days = 0 /\ C5_Age(f).seconds = 0

(***************************************************************************)
(* Claims about check_op_flag_attr                                         *)
(***************************************************************************)
\* the run of check_op_flag_attr has returned op_ret
C6_Returned == pc = "done" /\ cofa_result.kind = "pass"

\* the returned attributes of one category equal, field by field, the
\* snapshot fetched after the operation, where one was fetched
C6_SameAsFresh(req_, attr, category, snapshot, index) ==
    (InList("return_" \o category \o "_attr", req_) /\ snapshot # <<>>) =>
        /\ attr # <<>>
        /\ \A f \in DOMAIN snapshot[index].attrs :
              attr[1][category].attrs[f] = snapshot[index].attrs[f]

\* C6: if inline post-operation attributes were requested for the parent or
\* the target, check_op_flag_attr passes only if every field of that category
\* in the returned payload equals the field of the snapshot fetched with
\* get_attr after the operation, for every operation and backend type.
C6_PayloadEqualsFreshSnapshot ==
    C6_Returned =>
        /\ C6_SameAsFresh(req_parent, op_ret.parent_attr, "stat_post_op",
                          file_info_parent_out, 1)
        /\ C6_SameAsFresh(req_parent, op_ret.parent_attr, "extra_post_op",
                          file_info_parent_out, 2)
        /\ C6_SameAsFresh(req_target, op_ret.target_attr, "stat_post_op",
                          file_info_target_out, 1)
        /\ C6_SameAsFresh(req_target, op_ret.target_attr, "extra_post_op",
                          file_info_target_out, 2)

\* the flags of the returned attributes are not the OR of the toggles of the
\* request
C7_Mismatch(attr, req_) ==
    /\ attr # <<>>
    /\ attr[1].flags #
          RequestedBits(PyBool(InList("return_pre_op_attr", req_)),
                        PyBool(InList("return_stat_post_op_attr", req_)),
                        PyBool(InList("return_extra_post_op_attr", req_)))

\* the target of unlink had at most one link before the call
C7_LastLinkUnlinked ==
    /\ operation = "unlink"
    /\ file_info_target_before # <<>>
    /\ file_info_target_before[1].attrs.nlink <= 1

\* C7 as stated: for every operation, returned parent or target flags that
\* differ from the OR of the requested toggles make check_op_flag_attr fail
\* with an assertion error.
C7_Original_EveryMismatchAsserts ==
    pc = "done" =>
        /\ C7_Mismatch(op_ret.parent_attr, req_parent)
              => cofa_result.kind = "AssertionError"
        /\ C7_Mismatch(op_ret.target_attr, req_target)
              => cofa_result.kind = "AssertionError"

\* C7 (amended): returned parent flags that differ from the OR of the toggles
\* in req_parent, and returned target flags that differ from the OR of the
\* toggles in req_target, make check_op_flag_attr fail with an assertion
\* error, except the target flags of unlink when the target had at most one
\* link before the call, which are not verified.
C7_MismatchAsserts ==
    pc = "done" =>
        /\ C7_Mismatch(op_ret.parent_attr, req_parent)
              => cofa_result.kind = "AssertionError"
        /\ (C7_Mismatch(op_ret.target_attr, req_target) /\ ~C7_LastLinkUnlinked)
              => cofa_result.kind = "AssertionError"

\* unlink of a target with two links returned target flags with a wrong bit
\* and right parent flags, and the flag assertion on the target failed
C7_Witness ==
    /\ pc = "done"
    /\ operation = "unlink"
    /\ file_info_target_before[1].attrs.nlink = 2
    /\ ~C7_Mismatch(op_ret.parent_attr, req_parent)
    /\ C7_Mismatch(op_ret.target_attr, req_target)
    /\ cofa_result = Raised("AssertionError", <<"Error verifying flag", "target">>)

(***************************************************************************)
(* Claims about the FileSystem wrapper operations                          *)
(***************************************************************************)
\* the wrapper call has ended
C8_Ended == fs_result.kind \in {"return", "AssertionError"}

\* an API call the wrapper issued reported a nonzero status (Read answers
\* with a number of bytes and carries no status)
C8_NonzeroStatus ==
    \E i \in 1..Len(fs_result.calls) :
        fs_result.calls[i].call # "Read" /\ fs_result.calls[i].status # 0

\* C8: for every wrapper operation with a verify parameter, when verify=True
\* and the underlying API (the lookups and opens made on the caller's behalf
\* included) reports a nonzero status, the wrapper raises an assertion error
\* instead of returning a value.
C8_VerifyAssertsOnNonzeroStatus ==
    (C8_Ended /\ verify /\ C8_NonzeroStatus) => fs_result.kind = "AssertionError"

\* the status a returned value carries: the value when it is a bare int, the
\* first item when it is a tuple or a list that starts with an int
C9_StatusOf(value) ==
    IF value.type = "int" THEN value.val
    ELSE IF Len(value.items) > 0 /\ value.items[1].type = "int"
         THEN value.items[1].val
    ELSE 0

\* C9: for every wrapper operation with a verify parameter, when verify=False
\* no assertion error is raised for a nonzero status of the underlying API (a
\* failed lookup of the target or its parent included); the nonzero status
\* is passed back to the caller.
C9_NoVerifyPassesStatusBack ==
    (C8_Ended /\ ~verify /\ C8_NonzeroStatus) =>
        /\ fs_result.kind = "return"
        /\ C9_StatusOf(fs_result.value) # 0

\* C10: every operation returns a tuple whose first element is the status
\* code, on the success path and on every early-return path; no path returns
\* a bare status, a bare boolean or the attributes without the status.
C10_ReturnsStatusTuple ==
    fs_result.kind = "return" =>
        /\ fs_result.value.type = "tuple"
        /\ Len(fs_result.value.items) > 0
        /\ fs_result.value.items[1].type = "int"

(***************************************************************************)
(* Claims about the exceptions of the unchanged-fields check               *)
(***************************************************************************)
\* the run has ended in or after the call of compare_all_attributes for the
\* target
C11_TargetCompared ==
    /\ pc = "done"
    /\ cofa_calls # <<>>
    /\ cofa_calls[Len(cofa_calls)] = Did("compare_all_attributes", "target")

\* the unchanged-fields check of the stat fields failed on field f
C11_UnchangedFailure(f) ==
    cofa_result = Raised("AssertionError", <<"stat unchanged", f>>)

\* field f of the target differs between the values given to the create
\* operation and the snapshot fetched after it
C11_Differs(f) ==
    /\ file_info_target_before # <<>>
    /\ file_info_target_out # <<>>
    /\ file_info_target_before[1].attrs[f] # file_info_target_out[1].attrs[f]

C11_CreateTimes == {"created_time", "accessed_time"}

\* C11 as stated: when the operation is create_file, mkdir or symlink, a
\* difference in the target's created_time or accessed_time between the
\* before and after snapshots never fails the unchanged-fields check, on
\* every backend type.
C11_Original_ExemptOnEveryBackend ==
    (C11_TargetCompared /\ operation \in CREATE_OPS) =>
        \A f \in C11_CreateTimes : ~C11_UnchangedFailure(f)

\* C11 (amended): when the operation is create_file, mkdir or symlink, the
\* target's created_time and accessed_time are exempt from the
\* unchanged-fields check on the fsapi and sofs backends only; on gfs a
\* difference in one of them, when the field is neither requested nor a
\* declared special field, fails check_op_flag_attr with an assertion error.
C11_ExemptOnFsapiAndSofs ==
    (C11_TargetCompared /\ operation \in CREATE_OPS) =>
        \A f \in C11_CreateTimes :
            /\ fs_type \in {"fsapi", "sofs"} => ~C11_UnchangedFailure(f)
            /\ ( /\ fs_type = "gfs"
                 /\ C11_Differs(f)
                 /\ f \notin Elems(req_target)
                 /\ f \notin DOMAIN special_fields.stat_target )
               => cofa_result.kind = "AssertionError"

\* mkdir on fsapi whose target has another created_time after the call than
\* the one given to it, and check_op_flag_attr returned
C11_Witness ==
    /\ C11_TargetCompared
    /\ operation = "mkdir"
    /\ fs_type = "fsapi"
    /\ C11_Differs("created_time")
    /\ cofa_result.kind = "pass"

\* metadata_modified_time differs between the two snapshots of the call
C12_MmtChanged ==
    /\ f_info_out # <<>>
    /\ FieldOf(f_info_in, "metadata_modified_time")
          # FieldOf(f_info_out, "metadata_modified_time")

\* compare_all_attributes failed on metadata_modified_time: in the unchanged
\* check, or in the assertions on a field requested to change
C12_MmtFailure ==
    /\ caa_result.kind = "AssertionError"
    /\ caa_result.at \in {<<"stat unchanged", "metadata_modified_time">>,
                          <<"does not change", "metadata_modified_time">>,
                          <<"not recent", "metadata_modified_time">>}

\* C12 as stated: on sofs metadata_modified_time is on the exception list
\* whether or not the test requested it, so a changed metadata_modified_time
\* never fails compare_all_attributes; on gfs an unrequested change of
\* metadata_modified_time always fails it.
C12_Original_GfsAlwaysFails ==
    caa_result.kind # "pending" =>
        /\ fs_type = "sofs" => ~C12_MmtFailure
        /\ ( /\ fs_type = "gfs"
             /\ C12_MmtChanged
             /\ "metadata_modified_time" \notin Elems(req) )
           => caa_result.kind = "AssertionError"

\* C12 (amended): on sofs a changed metadata_modified_time never fails
\* compare_all_attributes, requested or not; on gfs an unrequested change of
\* metadata_modified_time fails it unless the caller put the field on
\* extra_exceptions["stat"].
C12_GfsFailsUnlessExcepted ==
    caa_result.kind # "pending" =>
        /\ fs_type = "sofs" => ~C12_MmtFailure
        /\ ( /\ fs_type = "gfs"
             /\ C12_MmtChanged
             /\ "metadata_modified_time" \notin Elems(req)
             /\ "metadata_modified_time" \notin Elems(extra_exceptions.stat) )
           => caa_result.kind = "AssertionError"

\* a passing call on sofs with no request and no exception in which
\* metadata_modified_time changed
C12_Witness ==
    /\ caa_result.kind = "pass"
    /\ fs_type = "sofs"
    /\ req = <<>>
    /\ extra_exceptions.stat = <<>>
    /\ C12_MmtChanged

(***************************************************************************)
(* Claims about the flag check of unlink                                   *)
(***************************************************************************)
\* the returned flags have been checked (api.py:309-336) on a run whose
\* operation returned target attributes and right parent flags
C13_TargetFlagsReached ==
    /\ Did("check flags", "") \in Elems(cofa_calls)
    /\ op_ret.target_attr # <<>>
    /\ ~C7_Mismatch(op_ret.parent_attr, req_parent)

\* the assertion on the target flags failed
C13_TargetFlagsRejected ==
    cofa_result = Raised("AssertionError", <<"Error verifying flag", "target">>)

\* C13: when the operation is unlink and the target had more than one link
\* before the call, check_op_flag_attr still verifies the returned target
\* flags against the requested toggles; the target flag check is skipped for
\* unlink only when the target's pre-operation nlink was 1 or less, and is
\* never skipped for any other operation that returns target attributes.
C13_TargetFlagsVerified ==
    C13_TargetFlagsReached =>
        (C13_TargetFlagsRejected <=>
            /\ C7_Mismatch(op_ret.target_attr, req_target)
            /\ ~C7_LastLinkUnlinked)

\* unlink of a target with two links, asked for the stat post-op attributes of
\* the target only, returned target flags 0: the flag assertion failed
C13_Witness ==
    /\ C13_TargetFlagsReached
    /\ operation = "unlink"
    /\ file_info_target_before[1].attrs.nlink = 2
    /\ req_target = <<"return_stat_post_op_attr">>
    /\ op_ret.target_attr[1].flags = 0
    /\ C13_TargetFlagsRejected

(***************************************************************************)
(* Claims about run_bash_w_live_output                                     *)
(***************************************************************************)
\* log_to_stdout has returned or raised
C14_TailEnded == tail_pc \in {"finished", "raised"}

\* C14: run_bash_w_live_output always terminates once the shell command has
\* exited: the main thread observes the exit and clears the stop flag, the
\* log-tailing thread leaves its read loop, the join completes, and the
\* function returns True exactly when the exit code of the command was 0.
C14_TerminatesAfterExit ==
    (pro.state = "exited") ~>
        ( /\ main_pc = "returned"
          /\ C14_TailEnded
          /\ rbw_result = IF pro.code = 0 THEN PyTrue ELSE PyFalse )

\* a call that returned True for a command that exited with 0, after the
\* log-tailing thread had left its loop
C14_Witness ==
    /\ main_pc = "returned"
    /\ tail_pc = "finished"
    /\ pro = [state |-> "exited", code |-> 0]
    /\ rbw_result = PyTrue

\* C18: every line the command has written to the log file by the time it
\* exits is logged by the tailing thread before run_bash_w_live_output
\* returns; clearing the stop flag never drops lines already in the file.
C18_EveryLineLogged ==
    main_pc = "returned" => logged = [k \in 1..log_file.lines |-> k]

\* C19: the stop flag is cleared only after the subprocess has been observed
\* to have exited, the function returns only after the tailing thread has
\* finished, and the tailing thread never logs a line after
\* run_bash_w_live_output has returned, in any interleaving of the threads.
C19_JoinedBeforeReturn ==
    /\ [][(log_output_run /\ ~log_output_run')
             => (returncode # NoValue /\ pro.state = "exited")]_vars
    /\ [](main_pc = "returned" => tail_pc \in {"finished", "raised"})
    /\ [][main_pc = "returned" => logged' = logged]_vars

\* a call that returned after the tailing thread had logged two lines and
\* left its loop
C19_Witness ==
    /\ main_pc = "returned"
    /\ tail_pc = "finished"
    /\ logged = <<1, 2>>

(***************************************************************************)
(* Claims about AccessModes.existing_handlers_check                        *)
(***************************************************************************)
\* the requested open is compatible with the handler h
C20_Compatible(h) ==
    /\ BitAnd(input_access_mode, h.share_mode) = input_access_mode
    /\ BitAnd(h.access_mode, input_share_mode) = h.access_mode

\* C20: existing_handlers_check(existing_handlers, A, S) returns True if and
\* only if for every existing handler h, (A & h.share_mode) == A and
\* (h.access_mode & S) == h.access_mode, for all modes built from READ, WRITE,
\* DELETE and UNLINK; with no handlers open it returns True.
C20_TrueIffEachCompatible ==
    ehc_result # "pending" =>
        (ehc_result = PyTrue <=>
            \A i \in 1..Len(existing_handlers) : C20_Compatible(existing_handlers[i]))

(***************************************************************************)
(* Claims about the failures and the order of check_op_flag_attr           *)
(***************************************************************************)
\* a request names a field that is not a key of FIELD_FLAG_DICT
C15_UnknownFieldRequested ==
    \E f \in Elems(req_parent) \cup Elems(req_target) : f \notin DOMAIN FIELD_FLAG_DICT

\* C15: every failure detected through check_op_flag_attr surfaces as an
\* assertion error; in particular a requested field name in req_parent or
\* req_target outside the known vocabulary makes check_op_flag_attr fail with
\* an AssertionError, not with any other exception type.
C15_FailuresAreAssertionErrors ==
    pc = "done" =>
        /\ cofa_result.kind \in {"pass", "AssertionError"}
        /\ C15_UnknownFieldRequested => cofa_result.kind = "AssertionError"

\* the pre-op attributes returned for one side equal the snapshot fetched
\* before the operation in the three fields of the pre-op comparison
C16_SameAsBefore(req_, attr, snapshot) ==
    (InList("return_pre_op_attr", req_) /\ attr # <<>> /\ snapshot # <<>>) =>
        \A f \in Elems(PRE_OP_FIELDS) :
            attr[1].pre_op.attrs[f] = snapshot[1].attrs[f]

\* C16: when return_pre_op_attr is requested, the comparison passes only if
\* the returned pre-op attributes' length, metadata_modified_time and
\* userdata_modified_time all equal the values of the snapshot fetched with
\* get_attr before the operation, on every backend type.
C16_PreOpEqualsBefore ==
    C6_Returned =>
        /\ C16_SameAsBefore(req_parent, op_ret.parent_attr, file_info_parent_before)
        /\ C16_SameAsBefore(req_target, op_ret.target_attr, file_info_target_before)

\* the positions in cofa_calls of the statements of one kind
C17_At(what) == {i \in 1..Len(cofa_calls) : cofa_calls[i][1] = what}

\* every position of I is before every position of J
C17_AllBefore(I, J) == \A i \in I : \A j \in J : i < j

\* every position of J has a position of I before it
C17_Preceded(J, I) == \A j \in J : \E i \in I : i < j

\* C17: in every execution of check_op_flag_attr the operation is invoked at
\* most once; all before-snapshots and all special-field 'before' checks
\* happen before the invocation; current_time is recorded after the
\* operation returns and before any after-snapshot is fetched; and every
\* comparison against an after-snapshot happens after the invocation.
C17_OrderOfCalls ==
    /\ Cardinality(C17_At("operation")) <= 1
    /\ C17_AllBefore(C17_At("get_attr before") \cup C17_At("check special fields"),
                     C17_At("operation"))
    /\ C17_Preceded(C17_At("now"), C17_At("operation"))
    /\ C17_AllBefore(C17_At("now"), C17_At("get_attr after"))
    /\ C17_Preceded(C17_At("get_attr after"), C17_At("now"))
    /\ C17_Preceded(C17_At("check returned values") \cup C17_At("compare_all_attributes"),
                    C17_At("get_attr after") \cup C17_At("operation"))
    /\ C17_Preceded(C17_At("check returned values") \cup C17_At("compare_all_attributes"),
                    C17_At("operation"))

\* a run of unlink that made every call and check, from the two snapshots
\* before the operation to the comparison of the target, and returned
C17_Witness ==
    /\ pc = "done"
    /\ cofa_result.kind = "pass"
    /\ operation = "unlink"
    /\ C17_At("get_attr before") = {1, 2}
    /\ C17_At("operation") = {4}
    /\ C17_At("now") = {5}
    /\ C17_At("get_attr after") = {6}
    /\ C17_At("compare_all_attributes") = {10, 11}

\* the components of a path: its maximal runs of characters other than "/",
\* from left to right
RECURSIVE ComponentsFrom(_, _, _)
ComponentsFrom(p, k, run) ==
    IF k > Len(p) THEN IF run = <<>> THEN <<>> ELSE <<run>>
    ELSE IF p[k] = SEP
         THEN (IF run = <<>> THEN <<>> ELSE <<run>>) \o ComponentsFrom(p, k + 1, <<>>)
         ELSE ComponentsFrom(p, k + 1, Append(run, p[k]))

Components(p) == ComponentsFrom(p, 1, <<>>)

\* C21: when get_inode(path, verify=False) has ended, the Lookup calls it
\* issued are for the components c1..cn of the path in that order, the first
\* under the root inode and each later one under the inode the previous
\* lookup returned; only the last call can have failed, and then its status
\* is returned; otherwise all n lookups were issued and the inode of cn is
\* returned, which is the root inode, with no lookup, when n = 0.
C21_LookupsResolvePath ==
    (gi_pc = "done" /\ ~gi_verify /\ ~return_attrs) =>
        LET cs == Components(file_path)
            n == Len(gi_calls)
        IN  /\ n <= Len(cs)
            /\ \A i \in 1..n :
                  /\ gi_calls[i].name = cs[i]
                  /\ gi_calls[i].parent =
                        IF i = 1 THEN RootInode ELSE gi_calls[i - 1].inode
                  /\ i < n => gi_calls[i].status = 0
            /\ IF n > 0 /\ gi_calls[n].status # 0
               THEN gi_result = giReturnsStatus(gi_calls[n].status)
               ELSE /\ n = Len(cs)
                    /\ gi_result =
                          giReturnsInode(IF n = 0 THEN RootInode ELSE gi_calls[n].inode)

\* a path of three components whose second lookup failed
C21_Witness ==
    /\ gi_pc = "done" /\ ~gi_verify /\ ~return_attrs
    /\ Len(Components(file_path)) = 3
    /\ Len(gi_calls) = 2
    /\ gi_calls[2].status # 0
    /\ gi_calls[1].name # gi_calls[2].name

\* C22: get_inode terminates for every path string.
C22_Terminates == <>(gi_pc = "done")

\* A wrapper method holds at most one handle it obtained itself, from an Open
\* or a Create that succeeded, and passes it to every later call that takes
\* a handle.  Call k is issued on a handle that is open when an Open or
\* Create succeeded before it and no Close was issued in between.
HandleCalls ==
    {"Sync", "Read", "Write", "WriteV", "HolePunch", "FindSparseRegion",
     "ReadDirEntries", "Close"}

Opens(c) == c.call \in {"Open", "Create"} /\ c.status = 0

OpenBefore(calls, k) ==
    \E i \in 1..(k - 1) :
        /\ Opens(calls[i])
        /\ \A j \in (i + 1)..(k - 1) : calls[j].call # "Close"

CloseCount(calls) == Cardinality({k \in 1..Len(calls) : calls[k].call = "Close"})

C23_WritesByPath ==
    /\ wrapper_op \in {"write", "write_v"}
    /\ handle_id.type = "None"
    /\ fs_result.kind \notin {"pending", "unused"}

\* C23: when write or write_v is called with a file_path and no handle_id,
\* every call that takes the handle (the Write/WriteV and the Close) is
\* issued while the handle is open, and when the Write/WriteV was issued and
\* the method returns, the handle has been closed exactly once.
C23_HandleOpenAtWriteClosedOnce ==
    C23_WritesByPath =>
        LET calls == fs_result.calls
        IN  /\ \A k \in 1..Len(calls) :
                  calls[k].call \in HandleCalls => OpenBefore(calls, k)
            /\ ( /\ fs_result.kind = "return"
                 /\ \E k \in 1..Len(calls) : calls[k].call \in {"Write", "WriteV"} )
               => CloseCount(calls) = 1

C24_OpensInternally ==
    /\ wrapper_op \in {"sync", "hole_punch", "find_sparse_region", "read",
                        "write", "write_v", "read_dir_entries"}
    /\ handle_id.type = "None"
    /\ fs_result.kind \notin {"pending", "unused"}

\* C24: when sync, hole_punch, find_sparse_region, read, write or
\* read_dir_entries has returned or raised, every handle it opened itself
\* has had a Close issued on it.
C24_InternalHandlesClosed ==
    C24_OpensInternally =>
        LET calls == fs_result.calls
        IN  \A i \in 1..Len(calls) :
                Opens(calls[i]) =>
                    \E j \in (i + 1)..Len(calls) : calls[j].call = "Close"

\* an argument is given when it is not None
C25_Given(v) == v.type # "None"

C25_Called(api) == fs_result.calls = <<ApiCall(api, api_status)>>

\* C25: for a valid inode, open_stream raises an assertion error without
\* calling the API when both name and stream_id are given and when neither
\* is given, calls OpenStreamByName when only name is given and
\* OpenStreamById when only stream_id is given, and makes at most one API
\* call.
C25_ExactlyOneOfNameAndId ==
    ( /\ wrapper_op = "open_stream"
      /\ inode.type = "Inode"
      /\ fs_result.kind \notin {"pending", "unused"} ) =>
        /\ Len(fs_result.calls) <= 1
        /\ IF C25_Given(name) = C25_Given(stream_id)
           THEN fs_result.kind = "AssertionError" /\ fs_result.calls = <<>>
           ELSE IF C25_Given(name) THEN C25_Called("OpenStreamByName")
           ELSE C25_Called("OpenStreamById")

\* the sum of the flags of a set of keys of FIELD_FLAG_DICT
RECURSIVE FlagSum(_)
FlagSum(S) ==
    IF S = {} THEN 0
    ELSE LET f == CHOOSE x \in S : TRUE
         IN  FIELD_FLAG_DICT[f] + FlagSum(S \ {f})

IsSingleBit(n) == \E k \in 0..7 : n = 2^k

C27_Returned == reqs1.raised = PyNone /\ reqs2.raised = PyNone

\* C27: every key of FIELD_FLAG_DICT has a single bit of its own, and when
\* fields_to_reqs returns for two lists, each result is the combination of
\* the bits of the set of fields of the list (so it does not depend on the
\* order or on duplicates and is 0 for the empty list), and the two results
\* are equal if and only if the two lists hold the same set of fields.
C27_DependsOnlyOnTheSet ==
    /\ \A f \in DOMAIN FIELD_FLAG_DICT :
          /\ IsSingleBit(FIELD_FLAG_DICT[f])
          /\ \A g \in DOMAIN FIELD_FLAG_DICT :
                FIELD_FLAG_DICT[f] = FIELD_FLAG_DICT[g] => f = g
    /\ C27_Returned =>
          /\ reqs1.reqs = FlagSum(Elems(fields1))
          /\ reqs2.reqs = FlagSum(Elems(fields2))
          /\ fields1 = <<>> => reqs1.reqs = 0
          /\ (reqs1.reqs = reqs2.reqs) <=> (Elems(fields1) = Elems(fields2))

\* a list with a duplicate and a list of the same field once
C27_Witness ==
    /\ C27_Returned
    /\ Len(fields1) = 2 /\ fields1[1] = fields1[2]
    /\ Len(fields2) = 1 /\ fields2[1] = fields1[1]
    /\ reqs1.reqs = reqs2.reqs /\ reqs1.reqs # 0

\* C26: no step of check_op_flag_attr changes req_parent, req_target or the
\* special_fields dictionary of its caller, the per-category dictionaries
\* included.
C26_ArgumentsUnchanged ==
    [][ /\ req_parent' = req_parent
        /\ req_target' = req_target
        /\ special_fields' = special_fields ]_vars
====
